---------------------------- MODULE Spec2Model ----------------------------
(***************************************************************************)
(* A model of json2toon: the encoder jsonToToon (src/src/index.ts) and the *)
(* decoder toonToJson (src/unnamed/part_002, the later revision of         *)
(* index.ts that implements the decoder).                                  *)
(*                                                                         *)
(* Text is a sequence of one-character strings, so that escaping, line     *)
(* splitting, trimming and the decoder's regular expressions are computed  *)
(* character by character as the code computes them.  A JSON value is a    *)
(* tagged record:                                                          *)
(*     [t |-> "null", v |-> 0]        null                                  *)
(*     [t |-> "undef", v |-> 0]       undefined (a missing property)        *)
(*     [t |-> "bool", v |-> b]        a boolean                             *)
(*     [t |-> "num",  v |-> n]        a number (integers are modelled)      *)
(*     [t |-> "str",  v |-> s]        a string (s a sequence of characters) *)
(*     [t |-> "arr",  v |-> items]    an array                              *)
(*     [t |-> "obj",  ks |-> keys, vs |-> values]   an object, its keys in  *)
(*                                    Object.keys order                     *)
(***************************************************************************)
EXTENDS Integers, Sequences, FiniteSets, TLC

VARIABLES
    json,       \* the value handed to jsonToToon / escapeValue (or NoValue)
    options,    \* the ToonOptions of the call: [indent, sortKeys]
    toon,       \* the TOON text: jsonToToon's result or toonToJson's argument
    decoded,    \* the value toonToJson returned (or NoValue)
    pc,         \* "value": a value is to be encoded; "text": a text is to be
                \* decoded; "escaped" / "encoded" / "decoded": the call returned
    stats,      \* what estimateTokenCount / calculateStats returned (or NoStats)
    calls       \* the toonToJson calls in progress, step by step: for each
                \* call its own lines, cursor and parseObject frames (or NoCalls)

vars == <<json, options, toon, decoded, pc, stats, calls>>

-----------------------------------------------------------------------------
(* Characters and strings                                                  *)

DigitChars == <<"0", "1", "2", "3", "4", "5", "6", "7", "8", "9">>

LowerChars ==
    <<"a", "b", "c", "d", "e", "f", "g", "h", "i", "j", "k", "l", "m",
      "n", "o", "p", "q", "r", "s", "t", "u", "v", "w", "x", "y", "z">>

\* the 1-based position of c in seq, 0 when it does not occur
IndexIn(seq, c) ==
    IF \E i \in 1..Len(seq) : seq[i] = c
    THEN CHOOSE i \in 1..Len(seq) : seq[i] = c
    ELSE 0

\* \d of the decoder's regular expressions
IsDigit(c) == IndexIn(DigitChars, c) > 0

DigitValue(c) == IndexIn(DigitChars, c) - 1

IsLower(c) == IndexIn(LowerChars, c) > 0

UpperChars ==
    <<"A", "B", "C", "D", "E", "F", "G", "H", "I", "J", "K", "L", "M",
      "N", "O", "P", "Q", "R", "S", "T", "U", "V", "W", "X", "Y", "Z">>

IsUpper(c) == IndexIn(UpperChars, c) > 0

\* \w of the decoder's regular expressions, [A-Za-z0-9_], over the characters
\* of the model
IsWordChar(c) == IsDigit(c) \/ IsLower(c) \/ IsUpper(c) \/ c = "_"

\* UTF-16 code units of the characters the model uses (what the default
\* Array.prototype.sort compares)
CharCode(c) ==
    IF IsDigit(c) THEN 48 + DigitValue(c)
    ELSE IF IsLower(c) THEN 96 + IndexIn(LowerChars, c)
    ELSE IF IsUpper(c) THEN 64 + IndexIn(UpperChars, c)
    ELSE CASE c = "\n" -> 10 [] c = " " -> 32 [] c = "\"" -> 34 [] c = "," -> 44
           [] c = "-" -> 45 [] c = ":" -> 58 [] c = "[" -> 91 [] c = "]" -> 93
           [] c = "_" -> 95 [] c = "{" -> 123 [] c = "}" -> 125

\* the white space String.prototype.trim / trimEnd and \s remove
IsSpace(c) == c \in {" ", "\n", "\t", "\r"}

S_null == <<"n", "u", "l", "l">>
S_true == <<"t", "r", "u", "e">>
S_false == <<"f", "a", "l", "s", "e">>
S_undefined == <<"u", "n", "d", "e", "f", "i", "n", "e", "d">>
S_root == <<"r", "o", "o", "t">>
S_objectObject ==
    <<"[", "o", "b", "j", "e", "c", "t", " ", "O", "b", "j", "e", "c", "t", "]">>

\* str.includes(c)
Includes(s, c) == \E i \in 1..Len(s) : s[i] = c

\* s.slice(from) with a 1-based first index
Drop(s, n) == SubSeq(s, n + 1, Len(s))

Take(s, n) == SubSeq(s, 1, n)

\* ' '.repeat(n)
RECURSIVE Spaces(_)
Spaces(n) == IF n <= 0 THEN <<>> ELSE <<" ">> \o Spaces(n - 1)

\* parts.join(sep)
RECURSIVE Join(_, _)
Join(parts, sep) ==
    IF Len(parts) = 0 THEN <<>>
    ELSE IF Len(parts) = 1 THEN parts[1]
    ELSE parts[1] \o sep \o Join(Tail(parts), sep)

\* text.split(c) for a one-character separator: always at least one part
RECURSIVE SplitOn(_, _)
SplitOn(s, c) ==
    IF \A i \in 1..Len(s) : s[i] # c THEN <<s>>
    ELSE LET p == CHOOSE i \in 1..Len(s) : s[i] = c /\ \A j \in 1..(i - 1) : s[j] # c
         IN  <<Take(s, p - 1)>> \o SplitOn(Drop(s, p), c)

\* String.prototype.trimEnd
RECURSIVE trimEnd(_)
trimEnd(s) ==
    IF Len(s) > 0 /\ IsSpace(s[Len(s)]) THEN trimEnd(Take(s, Len(s) - 1)) ELSE s

RECURSIVE trimStart(_)
trimStart(s) ==
    IF Len(s) > 0 /\ IsSpace(s[1]) THEN trimStart(Tail(s)) ELSE s

\* String.prototype.trim
trim(s) == trimStart(trimEnd(s))

\* the lexicographic order on code units of the default sort
RECURSIVE StrLess(_, _)
StrLess(a, b) ==
    IF Len(b) = 0 THEN FALSE
    ELSE IF Len(a) = 0 THEN TRUE
    ELSE IF a[1] # b[1] THEN CharCode(a[1]) < CharCode(b[1])
    ELSE StrLess(Tail(a), Tail(b))

\* insertion of one key into a sorted sequence
RECURSIVE InsertSorted(_, _)
InsertSorted(k, sorted) ==
    IF Len(sorted) = 0 THEN <<k>>
    ELSE IF StrLess(k, sorted[1]) THEN <<k>> \o sorted
    ELSE <<sorted[1]>> \o InsertSorted(k, Tail(sorted))

\* keys.sort() with the default comparison
RECURSIVE SortStrings(_)
SortStrings(keys) ==
    IF Len(keys) = 0 THEN <<>>
    ELSE InsertSorted(keys[1], SortStrings(Tail(keys)))

\* the digits of a non-negative integer
RECURSIVE Digits(_)
Digits(n) ==
    IF n < 10 THEN <<DigitChars[n + 1]>>
    ELSE Digits(n \div 10) \o <<DigitChars[(n % 10) + 1]>>

\* Number.prototype.toString for an integer
NumToStr(n) == IF n < 0 THEN <<"-">> \o Digits(0 - n) ELSE Digits(n)

-----------------------------------------------------------------------------
(* Values                                                                  *)

Null == [t |-> "null", v |-> 0]
Undefined == [t |-> "undef", v |-> 0]
Bool(b) == [t |-> "bool", v |-> b]
Num(n) == [t |-> "num", v |-> n]
Str(s) == [t |-> "str", v |-> s]
Arr(items) == [t |-> "arr", v |-> items]
Obj(keys, values) == [t |-> "obj", ks |-> keys, vs |-> values]
EmptyObj == Obj(<<>>, <<>>)
NoValue == [t |-> "none", v |-> 0]
NoText == <<"\n", "\n", "\n">>
NoStats == [t |-> "none"]
NoCalls == <<>>

\* Array.isArray(x)
IsArray(x) == x.t = "arr"

\* typeof x === 'object' && x !== null && !Array.isArray(x)
IsPlainObject(x) == x.t = "obj"

\* Object.keys(obj)
Keys(obj) == obj.ks

\* obj[k]: undefined when obj has no property k
Get(obj, k) ==
    IF \E i \in 1..Len(obj.ks) : obj.ks[i] = k
    THEN obj.vs[CHOOSE i \in 1..Len(obj.ks) : obj.ks[i] = k]
    ELSE Undefined

\* obj[k] = x: a new property goes last, an existing one keeps its place
Put(obj, k, x) ==
    IF \E i \in 1..Len(obj.ks) : obj.ks[i] = k
    THEN LET i == CHOOSE j \in 1..Len(obj.ks) : obj.ks[j] = k
         IN  Obj(obj.ks, [obj.vs EXCEPT ![i] = x])
    ELSE Obj(Append(obj.ks, k), Append(obj.vs, x))

-----------------------------------------------------------------------------
(* The encoder: src/src/index.ts                                           *)

\* the default of ToonOptions.indent, and the fallback of `options.indent || 2`
DefaultIndent == 2

\* the step when options.indent is not read
IndentStep_Default(opts) == DefaultIndent

\* options.indent || 2
IndentStep(opts) == IF opts.indent = 0 THEN DefaultIndent ELSE opts.indent

\* str.replace(/"/g, '""')
RECURSIVE DoubleQuotes(_)
DoubleQuotes(s) ==
    IF Len(s) = 0 THEN <<>>
    ELSE (IF s[1] = "\"" THEN <<"\"", "\"">> ELSE <<s[1]>>) \o DoubleQuotes(Tail(s))

\* String(value) for a value that is neither null, undefined, a boolean nor a
\* number: a string is itself, an object is `[object Object]`, an array is its
\* elements joined by commas (null and undefined elements as the empty text)
RECURSIVE ToStringOf(_)
ToStringOf(value) ==
    IF value.t = "str" THEN value.v
    ELSE IF value.t = "obj" THEN S_objectObject
    ELSE IF value.t = "arr"
    THEN Join([i \in 1..Len(value.v) |->
                  IF value.v[i].t \in {"null", "undef"} THEN <<>>
                  ELSE ToStringOf(value.v[i])], <<",">>)
    ELSE IF value.t = "num" THEN NumToStr(value.v)
    ELSE IF value.t = "bool" THEN (IF value.v THEN S_true ELSE S_false)
    ELSE IF value.t = "null" THEN S_null
    ELSE S_undefined

\* str.includes(',') || str.includes('\n') || str.includes('"')
NeedsQuoting_NoNewline(str) == Includes(str, ",") \/ Includes(str, "\"")

NeedsQuoting(str) == Includes(str, ",") \/ Includes(str, "\n") \/ Includes(str, "\"")

escapeValue(value) ==
    IF value.t = "null" THEN S_null
    ELSE IF value.t = "undef" THEN S_undefined
    ELSE IF value.t = "bool" THEN (IF value.v THEN S_true ELSE S_false)
    ELSE IF value.t = "num" THEN NumToStr(value.v)
    ELSE LET str == ToStringOf(value)
         IN  IF NeedsQuoting(str)
             THEN <<"\"">> \o DoubleQuotes(str) \o <<"\"">>
             ELSE str

\* Object.keys(item).sort().join(',')
KeySignature(item) == Join(SortStrings(Keys(item)), <<",">>)

isUniformArray(arr) ==
    IF Len(arr) = 0 THEN FALSE
    ELSE IF ~ \A i \in 1..Len(arr) : IsPlainObject(arr[i]) THEN FALSE
    ELSE LET firstKeys == KeySignature(arr[1])
         IN  \A i \in 1..Len(arr) : KeySignature(arr[i]) = firstKeys

\* a bug that looks for complex values in the first element only
hasComplexValues_FirstOnly(arr, keys) ==
    \E j \in 1..Len(keys) :
        LET x == Get(arr[1], keys[j]) IN IsArray(x) \/ IsPlainObject(x)

\* arr.some(item => keys.some(k => Array.isArray(item[k])
\*                                || (typeof item[k] === 'object' && item[k] !== null)))
hasComplexValues(arr, keys) ==
    \E i \in 1..Len(arr) : \E j \in 1..Len(keys) :
        LET x == Get(arr[i], keys[j]) IN IsArray(x) \/ IsPlainObject(x)

\* the column keys without keys.sort()
ColumnKeys_Unsorted(arr, opts) == Keys(arr[1])

\* the column keys of a table: the first element's keys, sorted on request
ColumnKeys(arr, opts) ==
    IF opts.sortKeys THEN SortStrings(Keys(arr[1])) ELSE Keys(arr[1])

\* one row of a table: `${indentStr}${values.join(',')}\n`
TableRow(item, keys, indent) ==
    Spaces(indent)
      \o Join([j \in 1..Len(keys) |-> escapeValue(Get(item, keys[j]))], <<",">>)
      \o <<"\n">>

RECURSIVE TableRows(_, _, _)
TableRows(arr, keys, indent) ==
    IF Len(arr) = 0 THEN <<>>
    ELSE TableRow(arr[1], keys, indent) \o TableRows(Tail(arr), keys, indent)

\* `${key}[${arr.length}]{${keys.join(',')}}:\n`
TableHeader(key, arr, keys) ==
    key \o <<"[">> \o NumToStr(Len(arr)) \o <<"]", "{">> \o Join(keys, <<",">>)
        \o <<"}", ":", "\n">>

\* `${key}[${arr.length}]:\n`
ListHeader(key, arr) ==
    key \o <<"[">> \o NumToStr(Len(arr)) \o <<"]", ":", "\n">>

\* text.split('\n').map(line => indentStr + line).join('\n')
IndentLines(text, indent) ==
    LET lines == SplitOn(text, "\n")
    IN  Join([i \in 1..Len(lines) |-> Spaces(indent) \o lines[i]], <<"\n">>)

RECURSIVE convertObject(_, _, _)
RECURSIVE ObjectBody(_, _, _, _)
RECURSIVE convertArray(_, _, _, _)
RECURSIVE convertUniformArray(_, _, _, _)
RECURSIVE convertNonUniformArray(_, _, _, _)
RECURSIVE ListBody(_, _, _, _)

\* the loop of convertNonUniformArray over the elements from index i (0-based)
ListBody(arr, i, indent, opts) ==
    IF i >= Len(arr) THEN <<>>
    ELSE LET value == arr[i + 1]
             piece ==
               IF IsPlainObject(value)
               THEN IndentLines(convertObject(value, indent, opts), indent) \o <<"\n">>
               ELSE IF IsArray(value)
               THEN Spaces(indent)
                      \o convertArray(<<"[">> \o NumToStr(i) \o <<"]">>, value.v,
                                      indent + IndentStep(opts), opts)
                      \o <<"\n">>
               ELSE Spaces(indent) \o escapeValue(value) \o <<"\n">>
         IN  piece \o ListBody(arr, i + 1, indent, opts)

convertNonUniformArray(key, arr, indent, opts) ==
    trimEnd(ListHeader(key, arr) \o ListBody(arr, 0, indent, opts))

convertUniformArray(key, arr, indent, opts) ==
    LET keys == ColumnKeys(arr, opts)
    IN  IF hasComplexValues(arr, keys)
        THEN convertNonUniformArray(key, arr, indent, opts)
        ELSE trimEnd(TableHeader(key, arr, keys) \o TableRows(arr, keys, indent))

\* a bug that leaves the empty array to the generic rule
convertArray_NoEmptyCase(key, arr, indent, opts) ==
    IF isUniformArray(arr) THEN convertUniformArray(key, arr, indent, opts)
    ELSE convertNonUniformArray(key, arr, indent, opts)

convertArray(key, arr, indent, opts) ==
    IF Len(arr) = 0 THEN key \o <<"[", "0", "]", "{", "}", ":">>
    ELSE IF isUniformArray(arr) THEN convertUniformArray(key, arr, indent, opts)
    ELSE convertNonUniformArray(key, arr, indent, opts)

\* the loop of convertObject over keys[j..]
ObjectBody(obj, keys, indent, opts) ==
    IF Len(keys) = 0 THEN <<>>
    ELSE LET key == keys[1]
             value == Get(obj, key)
             piece ==
               IF IsArray(value)
               THEN Spaces(indent)
                      \o convertArray(key, value.v, indent + IndentStep(opts), opts)
                      \o <<"\n">>
               ELSE IF IsPlainObject(value)
               THEN Spaces(indent) \o key \o <<":", "\n">>
                      \o convertObject(value, indent + IndentStep(opts), opts)
                      \o <<"\n">>
               ELSE Spaces(indent) \o key \o <<":", " ">> \o escapeValue(value)
                      \o <<"\n">>
         IN  piece \o ObjectBody(obj, Tail(keys), indent, opts)

convertObject(obj, indent, opts) ==
    LET keys == IF opts.sortKeys THEN SortStrings(Keys(obj)) ELSE Keys(obj)
    IN  trimEnd(ObjectBody(obj, keys, indent, opts))

\* jsonToToon for a value that is not a JSON string (a string argument is JSON
\* text, parsed first) and without includeStats
jsonToToon(obj, opts) ==
    IF IsArray(obj) THEN convertArray(S_root, obj.v, 0, opts)
    ELSE IF IsPlainObject(obj) THEN convertObject(obj, 0, opts)
    ELSE escapeValue(obj)

-----------------------------------------------------------------------------
(* The statistics: estimateTokenCount and calculateStats of src/src/index.ts *)

\* text.replace(/\s+/g, ' '), each white space character on its own
CollapseSpaces_EachSpace(s) == [i \in 1..Len(s) |-> IF IsSpace(s[i]) THEN " " ELSE s[i]]

\* text.replace(/\s+/g, ' '): every maximal run of white space becomes one space
RECURSIVE CollapseSpaces(_)
CollapseSpaces(s) ==
    IF Len(s) = 0 THEN <<>>
    ELSE IF IsSpace(s[1])
    THEN IF Len(s) > 1 /\ IsSpace(s[2]) THEN CollapseSpaces(Tail(s))
         ELSE <<" ">> \o CollapseSpaces(Tail(s))
    ELSE <<s[1]>> \o CollapseSpaces(Tail(s))

\* Math.ceil(a / b) for non-negative integers far below 2^53, where the
\* quotient of the doubles is above k - 1 and at most k exactly when a / b is
CeilDiv(a, b) == (a + b - 1) \div b

\* the characters of /[{}[\]:,]/
StructuralChars == {"{", "}", "[", "]", ":", ","}

\* Math.ceil(n * 0.3): 0.3 is the double just below 3/10 (by less than
\* 2^-54), so the exact product is below 3n/10 by less than 1/10 for every
\* count of characters, and rounding it to the nearest double never passes
\* an integer: the result is the least integer that is at least 3n/10
CeilOfThreeTenths(n) == CeilDiv(3 * n, 10)

estimateTokenCount(text) ==
    LET withoutExtraSpaces == CollapseSpaces(text)
        charCount == Len(withoutExtraSpaces)
        estimatedTokens == CeilDiv(charCount, 4)
        structuralChars == Cardinality({i \in 1..Len(text) : text[i] \in StructuralChars})
    IN  estimatedTokens + CeilOfThreeTenths(structuralChars)

\* a number of the statistics, as JavaScript computes it: a finite number
\* (kept in thousandths), NaN, or an infinity with its sign
Finite(thousandths) == [kind |-> "num", thousandths |-> thousandths]
NaN == [kind |-> "nan", thousandths |-> 0]
Infinity(sign) == [kind |-> "inf", thousandths |-> sign]

\* Math.round((a / b) * scale * unit) / unit for integers a and b >= 0, in
\* thousandths: 0 / 0 is NaN and a / 0 an infinity with the sign of a, and
\* both pass through the multiplications, Math.round and the division (the
\* quotient is rounded exactly; the doubles may round a tie the other way)
RoundedRatio(a, b, scale, unit) ==
    IF b = 0
    THEN IF a = 0 THEN NaN ELSE Infinity(IF a < 0 THEN 0 - 1 ELSE 1)
    ELSE Finite((1000 \div unit) * ((2 * a * scale * unit + b) \div (2 * b)))

calculateStats(jsonStr, toonStr) ==
    LET jsonTokenCount == estimateTokenCount(jsonStr)
        toonTokenCount == estimateTokenCount(toonStr)
        tokensSaved == jsonTokenCount - toonTokenCount
        jsonSize == Len(jsonStr)
        toonSize == Len(toonStr)
    IN  [t |-> "stats",
         jsonTokenCount |-> jsonTokenCount,
         toonTokenCount |-> toonTokenCount,
         tokensSaved |-> tokensSaved,
         percentageSaved |-> RoundedRatio(tokensSaved, jsonTokenCount, 100, 100),
         jsonSize |-> jsonSize,
         toonSize |-> toonSize,
         compressionRatio |-> RoundedRatio(toonSize, jsonSize, 1, 1000)]

-----------------------------------------------------------------------------
(* The decoder: toonToJson of src/unnamed/part_002                         *)

\* the length of the longest prefix of s made of characters satisfying \w
RECURSIVE WordPrefixLen(_)
WordPrefixLen(s) ==
    IF Len(s) > 0 /\ IsWordChar(s[1]) THEN 1 + WordPrefixLen(Tail(s)) ELSE 0

RECURSIVE DigitPrefixLen(_)
DigitPrefixLen(s) ==
    IF Len(s) > 0 /\ IsDigit(s[1]) THEN 1 + DigitPrefixLen(Tail(s)) ELSE 0

\* line.match(/^ */)[0].length
RECURSIVE LeadingSpaces(_)
LeadingSpaces(s) ==
    IF Len(s) > 0 /\ s[1] = " " THEN 1 + LeadingSpaces(Tail(s)) ELSE 0

\* the length of the longest prefix of s without the character c
RECURSIVE PrefixWithout(_, _)
PrefixWithout(s, c) ==
    IF Len(s) > 0 /\ s[1] # c THEN 1 + PrefixWithout(Tail(s), c) ELSE 0

\* parseInt(digits, 10) for a non-empty run of digits
RECURSIVE ParseDigits(_, _)
ParseDigits(s, acc) ==
    IF Len(s) = 0 THEN acc ELSE ParseDigits(Tail(s), acc * 10 + DigitValue(s[1]))

parseInt(s) == ParseDigits(s, 0)

\* s starts with the characters of p
StartsWith(s, p) == Len(s) >= Len(p) /\ Take(s, Len(p)) = p

NoMatch == [ok |-> FALSE]

\* /^(\w+)\[(\d+)\]/ : the key and the count of an array header, and the rest
HeaderPrefix(line) ==
    LET w == WordPrefixLen(line)
        r1 == Drop(line, w)
    IN  IF w = 0 \/ ~ StartsWith(r1, <<"[">>) THEN NoMatch
        ELSE LET r2 == Tail(r1)
                 d == DigitPrefixLen(r2)
                 r3 == Drop(r2, d)
             IN  IF d = 0 \/ ~ StartsWith(r3, <<"]">>) THEN NoMatch
                 ELSE [ok |-> TRUE, key |-> Take(line, w),
                       count |-> parseInt(Take(r2, d)), rest |-> Tail(r3)]

\* line.match(/^(\w+)\[(\d+)\]{([^}]*)}:/)
tabularMatch(line) ==
    LET h == HeaderPrefix(line)
    IN  IF ~ h.ok \/ ~ StartsWith(h.rest, <<"{">>) THEN NoMatch
        ELSE LET body == Tail(h.rest)
                 n == PrefixWithout(body, "}")
             IN  IF ~ StartsWith(Drop(body, n), <<"}", ":">>) THEN NoMatch
                 ELSE [ok |-> TRUE, key |-> h.key, count |-> h.count,
                       columns |-> Take(body, n)]

\* line.match(/^(\w+)\[(\d+)\]:/)
arrayMatch(line) ==
    LET h == HeaderPrefix(line)
    IN  IF ~ h.ok \/ ~ StartsWith(h.rest, <<":">>) THEN NoMatch
        ELSE [ok |-> TRUE, key |-> h.key, count |-> h.count]

\* line.match(/^(\w+):$/)
nestedMatch(line) ==
    LET w == WordPrefixLen(line)
    IN  IF w > 0 /\ Drop(line, w) = <<":">> /\ ~ Includes(line, "\n")
        THEN [ok |-> TRUE, key |-> Take(line, w)]
        ELSE NoMatch

\* line.match(/^(\w+): (.+)$/)
kvMatch(line) ==
    LET w == WordPrefixLen(line)
        r == Drop(line, w)
    IN  IF w > 0 /\ StartsWith(r, <<":", " ">>) /\ Len(r) > 2 /\ ~ Includes(line, "\n")
        THEN [ok |-> TRUE, key |-> Take(line, w), rawValue |-> Drop(r, 2)]
        ELSE NoMatch

\* arrLine.match(/^\w+:/)
bareKeyMatch(arrLine) ==
    LET w == WordPrefixLen(arrLine)
    IN  w > 0 /\ StartsWith(Drop(arrLine, w), <<":">>)

\* Number(text) is not NaN, for text over the modelled alphabet: after trimming,
\* the empty text (0) or an optionally signed run of decimal digits
IsNumeric(text) ==
    LET s == trim(text)
        u == IF Len(s) > 0 /\ s[1] = "-" THEN Tail(s) ELSE s
    IN  Len(s) = 0 \/ (Len(u) > 0 /\ DigitPrefixLen(u) = Len(u))

\* Number(text) for numeric text
ToNumber(text) ==
    LET s == trim(text)
    IN  IF Len(s) = 0 THEN 0
        ELSE IF s[1] = "-" THEN 0 - parseInt(Tail(s))
        ELSE parseInt(s)

\* the scalar conversion both branches of parseObject apply to a raw token:
\* null, true, false, then Number(val) unless NaN or blank, else the text
parseToken(val) ==
    IF val = S_null THEN Null
    ELSE IF val = S_true THEN Bool(TRUE)
    ELSE IF val = S_false THEN Bool(FALSE)
    ELSE IF IsNumeric(val) /\ trim(val) # <<>> THEN Num(ToNumber(val))
    ELSE Str(val)

\* the length of the match of /"[^"]*"/ at the start of s, or 0
QuotedLen(s) ==
    IF Len(s) > 0 /\ s[1] = "\""
    THEN LET n == PrefixWithout(Tail(s), "\"")
         IN  IF n + 2 <= Len(s) THEN n + 2 ELSE 0
    ELSE 0

\* row.match(/("[^"]*"|[^,]+)/g): the matches, left to right
RECURSIVE CellTokens(_)
CellTokens(row) ==
    IF Len(row) = 0 THEN <<>>
    ELSE LET q == QuotedLen(row)
             n == PrefixWithout(row, ",")
         IN  IF q > 0 THEN <<Take(row, q)>> \o CellTokens(Drop(row, q))
             ELSE IF n > 0 THEN <<Take(row, n)>> \o CellTokens(Drop(row, n))
             ELSE CellTokens(Tail(row))

\* v.replace(/""/g, '"')
RECURSIVE CollapseQuotes(_)
CollapseQuotes(s) ==
    IF Len(s) = 0 THEN <<>>
    ELSE IF StartsWith(s, <<"\"", "\"">>) THEN <<"\"">> \o CollapseQuotes(Drop(s, 2))
    ELSE <<s[1]>> \o CollapseQuotes(Tail(s))

\* v.replace(/^"|"$/g, '').replace(/""/g, '"')
UnquoteCell(v) ==
    LET a == IF Len(v) > 0 /\ v[1] = "\"" THEN Tail(v) ELSE v
        b == IF Len(a) > 0 /\ a[Len(a)] = "\"" THEN Take(a, Len(a) - 1) ELSE a
    IN  CollapseQuotes(b)

\* the values of a row: the matches unquoted (an empty list when nothing matches)
RowValues(row) ==
    LET toks == CellTokens(row)
    IN  [j \in 1..Len(toks) |-> UnquoteCell(toks[j])]

\* columns.forEach((col, j) => item[col] = <parsed values[j]>)
RECURSIVE RowItem(_, _, _, _)
RowItem(columns, values, j, item) ==
    IF j > Len(columns) THEN item
    ELSE LET val == IF j <= Len(values) THEN parseToken(values[j]) ELSE Undefined
         IN  RowItem(columns, values, j + 1, Put(item, columns[j], val))

\* tabularMatch[3].split(',').map(s => s.trim())
ColumnNames(text) ==
    LET parts == SplitOn(text, ",")
    IN  [j \in 1..Len(parts) |-> trim(parts[j])]

\* toon.split(/\r?\n/).map(line => line.trimEnd())
SplitLines(text) ==
    LET parts == SplitOn(text, "\n")
    IN  [i \in 1..Len(parts) |-> trimEnd(parts[i])]

\* the row loop of the tabular branch; idx is the 0-based cursor
RECURSIVE TabularLoop(_, _, _, _, _, _)
TabularLoop(lines, idx, i, count, columns, arr) ==
    IF ~ (i < count /\ idx < Len(lines)) THEN [arr |-> arr, idx |-> idx]
    ELSE LET row == trim(lines[idx + 1])
         IN  IF Len(row) = 0
             THEN TabularLoop(lines, idx + 1, i + 1, count, columns, arr)
             ELSE TabularLoop(lines, idx + 1, i + 1, count, columns,
                              Append(arr, RowItem(columns, RowValues(row), 1, EmptyObj)))

RECURSIVE parseObject(_, _, _, _)
RECURSIVE ElementLoop(_, _, _, _, _, _)

\* the element loop of the generic array branch
ElementLoop(lines, idx, i, count, currentIndent, arr) ==
    IF ~ (i < count /\ idx < Len(lines)) THEN [arr |-> arr, idx |-> idx]
    ELSE LET arrLine == trim(lines[idx + 1])
         IN  IF Len(arrLine) = 0
             THEN ElementLoop(lines, idx + 1, i + 1, count, currentIndent, arr)
             ELSE IF bareKeyMatch(arrLine)
             THEN LET r == parseObject(lines, idx - 1, currentIndent + 2, EmptyObj)
                  IN  ElementLoop(lines, r.idx + 1, i + 1, count, currentIndent,
                                  Append(arr, r.obj))
             ELSE ElementLoop(lines, idx + 1, i + 1, count, currentIndent,
                              Append(arr, IF arrLine = S_null THEN Null ELSE Str(arrLine)))

\* the while loop of parseObject(indent), from cursor idx with obj built so far;
\* returns the object and the cursor where the block ended
parseObject(lines, idx, indent, obj) ==
    IF idx >= Len(lines) THEN [obj |-> obj, idx |-> idx]
    ELSE LET line == lines[idx + 1]
             currentIndent == LeadingSpaces(line)
             tm == tabularMatch(line)
             am == arrayMatch(line)
             nm == nestedMatch(line)
             kv == kvMatch(line)
         IN  IF Len(trim(line)) = 0 THEN parseObject(lines, idx + 1, indent, obj)
             ELSE IF currentIndent < indent THEN [obj |-> obj, idx |-> idx]
             ELSE IF tm.ok
             THEN LET r == TabularLoop(lines, idx + 1, 0, tm.count,
                                       ColumnNames(tm.columns), <<>>)
                  IN  parseObject(lines, r.idx, indent, Put(obj, tm.key, Arr(r.arr)))
             ELSE IF am.ok
             THEN LET r == ElementLoop(lines, idx + 1, 0, am.count, currentIndent, <<>>)
                  IN  parseObject(lines, r.idx, indent, Put(obj, am.key, Arr(r.arr)))
             ELSE IF nm.ok
             THEN LET r == parseObject(lines, idx + 1, currentIndent + 2, EmptyObj)
                  IN  parseObject(lines, r.idx, indent, Put(obj, nm.key, r.obj))
             ELSE IF kv.ok
             THEN parseObject(lines, idx + 1, indent,
                              Put(obj, kv.key, parseToken(kv.rawValue)))
             ELSE parseObject(lines, idx + 1, indent, obj)

toonToJson(text) == parseObject(SplitLines(text), 0, 0, EmptyObj).obj

-----------------------------------------------------------------------------
(* The calls                                                               *)

DefaultOptions == [indent |-> DefaultIndent, sortKeys |-> FALSE]

\* jsonToToon(json, options) returns its text
JsonToToon ==
    /\ pc = "value"
    /\ json.t # "str"
    /\ toon' = jsonToToon(json, options)
    /\ pc' = "encoded"
    /\ UNCHANGED <<json, options, decoded, stats, calls>>

\* toonToJson(toon) returns its value
ToonToJson ==
    /\ pc \in {"encoded", "text"}
    /\ decoded' = toonToJson(toon)
    /\ pc' = "decoded"
    /\ UNCHANGED <<json, options, toon, stats, calls>>

\* escapeValue(json) returns its text
EscapeValue ==
    /\ pc = "scalar"
    /\ toon' = escapeValue(json)
    /\ pc' = "escaped"
    /\ UNCHANGED <<json, options, decoded, stats, calls>>

\* a call estimateTokenCount(toon)
EstimateTokenCount ==
    /\ pc = "estimate"
    /\ stats' = [t |-> "tokens", count |-> estimateTokenCount(toon)]
    /\ pc' = "estimated"
    /\ UNCHANGED <<json, options, toon, decoded, calls>>

\* a call calculateStats(jsonStr, toonStr), json holding the JSON text
CalculateStats ==
    /\ pc = "texts"
    /\ json.t = "str"
    /\ stats' = calculateStats(json.v, toon)
    /\ pc' = "calculated"
    /\ UNCHANGED <<json, options, toon, decoded, calls>>

Next == JsonToToon \/ ToonToJson

-----------------------------------------------------------------------------
(* Bounded inputs                                                          *)

MaxRows == 2
MaxCols == 2
MaxStrLen == 3

K_k == <<"k">>
K_p == <<"p">>
ColNames == << <<"a">>, <<"b">>, <<"c">>, <<"d">>, <<"e">> >>

\* all strings over alphabet of length at most n
RECURSIVE StringsUpTo(_, _)
StringsUpTo(alphabet, n) ==
    IF n = 0 THEN {<<>>}
    ELSE LET shorter == StringsUpTo(alphabet, n - 1)
         IN  shorter \cup {Append(s, c) : s \in shorter, c \in alphabet}

StrAlphabet == {"a", "1", ",", "\"", "\n", " "}

NumSample == {0, 7, 10, 123, 0 - 1, 0 - 45}

Scalars ==
    {Null, Bool(TRUE), Bool(FALSE)}
        \cup {Num(n) : n \in NumSample}
        \cup {Str(s) : s \in StringsUpTo(StrAlphabet, MaxStrLen)}

\* cells of the tables and fields that are encoded and decoded again
CellSample ==
    {Null, Bool(TRUE), Bool(FALSE), Num(0), Num(7), Num(0 - 45),
     Str(<<>>), Str(<<"a">>), Str(<<"a", " ">>), Str(<<" ", "a">>), Str(<<"1">>),
     Str(<<"-", "1">>), Str(S_null), Str(S_true),
     Str(<<"a", ",", "b">>), Str(<<"a", "\"", "b">>), Str(<<"\"">>),
     Str(<<"a", "\n", "b">>), Str(<<"a", ",", "\"">>)}

FillSample == {Num(1), Str(<<"a", "b">>)}

\* seq rotated left by r places
Rotate(seq, r) ==
    [i \in 1..Len(seq) |-> seq[((i - 1 + r) % Len(seq)) + 1]]

\* an array of n objects with the m keys ColNames[1..m], every value fill but
\* the one at row pi, column pj, which is pv; row pi lists its keys rotated by rot
TableOf(n, m, fill, pi, pj, pv, rot) ==
    [i \in 1..n |->
        LET cells == [j \in 1..m |-> IF i = pi /\ j = pj THEN pv ELSE fill]
            r == IF i = pi THEN rot ELSE 0
        IN  Obj(Rotate(SubSeq(ColNames, 1, m), r), Rotate(cells, r))]

Tables(cells, fills) ==
    UNION {UNION {{TableOf(n, m, fill, pi, pj, pv, rot) :
                      fill \in fills, pi \in 1..n, pj \in 1..m, pv \in cells,
                      rot \in 0..(m - 1)} :
                  m \in 1..MaxCols} :
           n \in 1..MaxRows}

\* flat tables of scalars, under the key k of the top-level object or as the
\* top-level array
TableInputs ==
    {Obj(<<K_k>>, <<Arr(t)>>) : t \in Tables(CellSample, FillSample)}
        \cup {Arr(t) : t \in Tables(CellSample, FillSample)}

InitTable ==
    /\ json \in TableInputs
    /\ options = DefaultOptions
    /\ toon = NoText
    /\ decoded = NoValue
    /\ stats = NoStats
    /\ calls = NoCalls
    /\ pc = "value"

SpecTable == InitTable /\ [][Next]_vars

\* the table of a TableInputs value and the key its header carries
TableOfInput(x) == IF IsArray(x) THEN x.v ELSE Get(x, K_k).v

TableKeyOfInput(x) == IF IsArray(x) THEN S_root ELSE K_k

\* scalars as the value of a field and as a cell of a one-row table, each alone
\* and followed by a sibling
CodecInputs ==
    UNION {{Obj(<<K_k>>, <<x>>),
            Obj(<<K_k, K_p>>, <<x, Num(1)>>),
            Obj(<<K_k>>, <<Arr(<<Obj(<<ColNames[1]>>, <<x>>)>>)>>),
            Obj(<<K_k>>, <<Arr(<<Obj(<<ColNames[1], ColNames[2]>>, <<x, Num(1)>>)>>)>>)} :
           x \in Scalars}

InitCodec ==
    /\ json \in CodecInputs
    /\ options = DefaultOptions
    /\ toon = NoText
    /\ decoded = NoValue
    /\ stats = NoStats
    /\ calls = NoCalls
    /\ pc = "value"

SpecCodec == InitCodec /\ [][Next]_vars

\* the scalar a CodecInputs value carries, and where it is found again
CodecScalar(x) ==
    LET f == Get(x, K_k)
    IN  IF IsArray(f) THEN Get(f.v[1], ColNames[1]) ELSE f

CodecDecoded(x, d) ==
    LET f == Get(x, K_k)
        g == Get(d, K_k)
    IN  IF ~ IsArray(f) THEN g
        ELSE IF IsArray(g) /\ Len(g.v) >= 1 /\ IsPlainObject(g.v[1])
        THEN Get(g.v[1], ColNames[1])
        ELSE Undefined

InitEscape ==
    /\ json \in Scalars
    /\ options = DefaultOptions
    /\ toon = NoText
    /\ decoded = NoValue
    /\ stats = NoStats
    /\ calls = NoCalls
    /\ pc = "scalar"

SpecEscape == InitEscape /\ [][EscapeValue]_vars

\* the text of a cell as written in a row, with the scalar the grammar gives it
CellTexts ==
    {<<<<"1">>, Num(1)>>, <<<<"-", "4", "5">>, Num(0 - 45)>>, <<<<"0">>, Num(0)>>,
     <<S_null, Null>>, <<S_true, Bool(TRUE)>>, <<S_false, Bool(FALSE)>>,
     <<<<"a">>, Str(<<"a">>)>>, <<<<"a", " ", "b">>, Str(<<"a", " ", "b">>)>>,
     <<<<>>, Str(<<>>)>>,
     <<<<"\"", "a", ",", "b", "\"">>, Str(<<"a", ",", "b">>)>>,
     <<<<"\"", "a", "\"", "\"", "b", "\"">>, Str(<<"a", "\"", "b">>)>>}

\* rows of m cells: all of them a filler cell but one (a row is not blank)
RowsOf(m) ==
    {[j \in 1..m |-> IF j = pj THEN c ELSE <<<<"x">>, Str(<<"x">>)>>] :
        pj \in 1..m, c \in {t \in CellTexts : m > 1 \/ t[1] # <<>>}}

\* the text `k[n]{a,b,..}:` followed by the rows, each indented by DefaultIndent
TableText(rows, m) ==
    Join(<<K_k \o <<"[">> \o NumToStr(Len(rows)) \o <<"]", "{">>
              \o Join(SubSeq(ColNames, 1, m), <<",">>) \o <<"}", ":">>>>
         \o [i \in 1..Len(rows) |->
                Spaces(DefaultIndent)
                  \o Join([j \in 1..m |-> rows[i][j][1]], <<",">>)],
         <<"\n">>)

\* the array those rows denote
TableValue(rows, m) ==
    Arr([i \in 1..Len(rows) |->
            Obj(SubSeq(ColNames, 1, m), [j \in 1..m |-> rows[i][j][2]])])

RowSeqs(m) ==
    UNION {[1..n -> RowsOf(m)] : n \in 1..MaxRows}

\* In SpecDecode json holds the value the rows of the text denote.
InitDecode ==
    /\ \E m \in 1..MaxCols : \E rows \in RowSeqs(m) :
          /\ toon = TableText(rows, m)
          /\ json = Obj(<<K_k>>, <<TableValue(rows, m)>>)
    /\ options = DefaultOptions
    /\ decoded = NoValue
    /\ stats = NoStats
    /\ calls = NoCalls
    /\ pc = "text"

SpecDecode == InitDecode /\ [][ToonToJson]_vars

MaxDepth == 3

K_ab == <<"a", ",", "b">>

OptionSample ==
    {DefaultOptions, [indent |-> 4, sortKeys |-> TRUE]}

\* values that are objects or arrays, as cells of an array of objects
ComplexSample ==
    {EmptyObj, Obj(<<ColNames[1]>>, <<Num(1)>>), Arr(<<>>), Arr(<<Num(1)>>),
     Arr(<<Obj(<<ColNames[1]>>, <<Num(1)>>)>>)}

\* arrays of objects with one key set and a complex value somewhere, under
\* the key k or as the top-level array
ComplexInputs ==
    LET ts == Tables(ComplexSample, {Num(1), Arr(<<>>)})
    IN  {Obj(<<K_k>>, <<Arr(t)>>) : t \in ts} \cup {Arr(t) : t \in ts}

\* key[N]: and key[N]{ , the two ways a header line starts
GenericHeader(key, n) == key \o <<"[">> \o NumToStr(n) \o <<"]", ":">>

TabularHeaderStart(key, n) == key \o <<"[">> \o NumToStr(n) \o <<"]", "{">>

\* the keys of an object as a set
KeySet(obj) == {obj.ks[i] : i \in 1..Len(obj.ks)}

\* the sequences without repetition of at most n of the given names
KeySeqs(names, n) ==
    {ks \in UNION {[1..m -> names] : m \in 0..n} :
        \A i, j \in 1..Len(ks) : i # j => ks[i] # ks[j]}

\* objects with scalar values under keys that may hold a comma
MixedKeyObjects ==
    {Obj(ks, [i \in 1..Len(ks) |-> Num(i)]) :
        ks \in KeySeqs({ColNames[1], ColNames[2], K_ab}, MaxCols)}

\* arrays of such objects, with equal or different key sets, under the key k
MixedKeyInputs ==
    {Obj(<<K_k>>, <<Arr(t)>>) :
        t \in UNION {[1..n -> MixedKeyObjects] : n \in 1..MaxRows}}

\* x placed in an object or in an array, alone or beside a sibling
Wrap(x) ==
    {Obj(<<K_k>>, <<x>>),
     Obj(<<K_k, K_p>>, <<x, Num(1)>>),
     Obj(<<K_p, K_k>>, <<Str(<<"a">>), x>>),
     Arr(<<x>>),
     Arr(<<x, Num(1)>>),
     Arr(<<Num(1), x>>),
     Arr(<<Obj(<<K_p>>, <<Num(1)>>), x>>)}

\* the values that hold one empty array at nesting depth at most n
RECURSIVE NestedEmpty(_)
NestedEmpty(n) ==
    IF n = 0 THEN {Arr(<<>>)}
    ELSE LET inner == NestedEmpty(n - 1)
         IN  inner \cup UNION {Wrap(x) : x \in inner}

EmptyArrayInputs == NestedEmpty(MaxDepth)

Init ==
    /\ json \in ComplexInputs \cup MixedKeyInputs \cup EmptyArrayInputs
    /\ options \in OptionSample
    /\ toon = NoText
    /\ decoded = NoValue
    /\ stats = NoStats
    /\ calls = NoCalls
    /\ pc = "value"

Spec == Init /\ [][Next]_vars

MaxKeys == 3

\* keys in which the order of code units differs from the alphabetical one
\* (B before a) and one key is a prefix of another
SortKeySample == {<<"a">>, <<"a", "b">>, <<"b">>, <<"B">>}

\* the value a key holds, so that objects with the same keys hold the same
\* key/value pairs
SortScalar(key) ==
    CASE key = <<"a">> -> Num(1)
      [] key = <<"a", "b">> -> Str(<<"x">>)
      [] key = <<"b">> -> Bool(TRUE)
      [] OTHER -> Null

FlatOf(ks) == Obj(ks, [i \in 1..Len(ks) |-> SortScalar(ks[i])])

\* objects of at most n scalar fields in every insertion order
FlatObjects(n) == {FlatOf(ks) : ks \in KeySeqs(SortKeySample, n)}

\* flat objects, objects nested in objects at two depths, arrays of two
\* objects (the same keys in any two orders: a table; or the second object
\* {b, a}) under a key and at the top level, and an array of one object and a
\* scalar
SortInputs ==
    LET small == FlatObjects(MaxKeys - 1)
        filled == {o \in small : Len(o.ks) > 0}
        nested == {Obj(<<K_k, K_p>>, <<o, Num(1)>>) : o \in small}
                    \cup {Obj(<<K_p, K_k>>, <<Num(1), o>>) : o \in small}
        seconds(o1) == {o \in filled : KeySet(o) = KeySet(o1)}
                         \cup {FlatOf(<<<<"b">>, <<"a">>>>)}
        pairs == UNION {{Arr(<<o1, o2>>) : o2 \in seconds(o1)} : o1 \in filled}
    IN  FlatObjects(MaxKeys)
          \cup nested
          \cup {Obj(<<K_p>>, <<x>>) : x \in nested}
          \cup pairs
          \cup {Obj(<<K_k>>, <<t>>) : t \in pairs}
          \cup {Obj(<<K_p, K_k>>, <<Arr(<<o, Num(1)>>), Num(1)>>) : o \in filled}

InitSort ==
    /\ json \in SortInputs
    /\ options \in {[indent |-> n, sortKeys |-> TRUE] : n \in {DefaultIndent, 4}}
    /\ toon = NoText
    /\ decoded = NoValue
    /\ stats = NoStats
    /\ calls = NoCalls
    /\ pc = "value"

SpecSort == InitSort /\ [][JsonToToon]_vars

MaxElems == 3

\* the elements of the lists: scalars and objects with scalar fields
ElemSample ==
    {Null, Bool(TRUE), Num(1), Str(<<"a", "b">>), Str(<<>>),
     Obj(<<ColNames[1]>>, <<Num(1)>>),
     Obj(<<ColNames[1], ColNames[2]>>, <<Num(1), Str(<<"x">>)>>)}

Lists == UNION {[1..n -> ElemSample] : n \in 1..MaxElems}

\* a list under the key k of the top-level object (depth 0) or of the object
\* under the key p (depth 1)
ListInputs ==
    {Obj(<<K_k>>, <<Arr(l)>>) : l \in Lists}
        \cup {Obj(<<K_p>>, <<Obj(<<K_k>>, <<Arr(l)>>)>>) : l \in Lists}

WidthSample == {1, DefaultIndent, 4}

InitList ==
    /\ json \in ListInputs
    /\ options \in {[indent |-> w, sortKeys |-> FALSE] : w \in WidthSample}
    /\ toon = NoText
    /\ decoded = NoValue
    /\ stats = NoStats
    /\ calls = NoCalls
    /\ pc = "value"

SpecList == InitList /\ [][JsonToToon]_vars

\* the depth of the list's header line, the list, and the lines after the header
ListDepth(x) == IF IsArray(Get(x, K_k)) THEN 0 ELSE 1

ListOfInput(x) == IF IsArray(Get(x, K_k)) THEN Get(x, K_k).v ELSE Get(Get(x, K_p), K_k).v

MaxWidth == 4

K_parent == <<"p", "a", "r", "e", "n", "t">>
K_child == <<"c", "h", "i", "l", "d">>
S_value == <<"v", "a", "l", "u", "e">>

\* objects without object fields
LeafObjects ==
    {Obj(<<K_child>>, <<Str(S_value)>>),
     Obj(<<ColNames[3], ColNames[5]>>, <<Num(1), Str(<<"a", "\n", "b">>)>>),
     Obj(<<ColNames[3]>>, <<Str(<<>>)>>),
     EmptyObj}

\* x as the value of a key, alone, after a scalar field, before a scalar
\* field and before a second object field
NestIn(x) ==
    {Obj(<<K_parent>>, <<x>>),
     Obj(<<ColNames[1], K_p>>, <<Num(1), x>>),
     Obj(<<K_p, ColNames[2]>>, <<x, Str(<<"v">>)>>),
     Obj(<<K_p, K_k>>, <<x, Obj(<<ColNames[4]>>, <<Null>>)>>)}

\* objects nested in objects to depth at most n
RECURSIVE NestedObjects(_)
NestedObjects(n) ==
    IF n = 0 THEN LeafObjects
    ELSE LET inner == NestedObjects(n - 1)
         IN  inner \cup UNION {NestIn(x) : x \in inner}

InitNest ==
    /\ json \in NestedObjects(MaxDepth)
    /\ options \in {[indent |-> w, sortKeys |-> FALSE] : w \in 1..MaxWidth}
    /\ toon = NoText
    /\ decoded = NoValue
    /\ stats = NoStats
    /\ calls = NoCalls
    /\ pc = "value"

SpecNest == InitNest /\ [][JsonToToon]_vars

\* the token the grammar writes for a scalar (strings that need no quotes)
ScalarText(x) ==
    CASE x.t = "null" -> S_null
      [] x.t = "bool" -> (IF x.v THEN S_true ELSE S_false)
      [] x.t = "num" -> NumToStr(x.v)
      [] OTHER -> x.v

\* the lines of an object block at depth d: key: value for a scalar, key: and
\* the block of the value at depth d + 1 for an object
RECURSIVE BlockLines(_, _)
BlockLines(obj, d) ==
    LET RECURSIVE from(_)
        from(i) ==
            IF i > Len(obj.ks) THEN <<>>
            ELSE (IF IsPlainObject(obj.vs[i])
                  THEN <<Spaces(DefaultIndent * d) \o obj.ks[i] \o <<":">>>>
                         \o BlockLines(obj.vs[i], d + 1)
                  ELSE <<Spaces(DefaultIndent * d) \o obj.ks[i] \o <<":", " ">>
                           \o ScalarText(obj.vs[i])>>)
                 \o from(i + 1)
    IN  from(1)

K_name == <<"n", "a", "m", "e">>
K_zip == <<"z", "i", "p">>
S_Bob == <<"B", "o", "b">>
S_NewYork == <<"N", "e", "w", " ", "Y", "o", "r", "k">>

TextLeaves ==
    {Obj(<<K_name>>, <<Str(S_Bob)>>),
     Obj(<<ColNames[3], K_zip>>, <<Str(S_NewYork), Num(10001)>>),
     Obj(<<ColNames[1], ColNames[2]>>, <<Bool(TRUE), Null>>)}

\* objects with scalar fields nested in objects to depth at most n
RECURSIVE NestedTextValues(_)
NestedTextValues(n) ==
    IF n = 0 THEN TextLeaves
    ELSE LET inner == NestedTextValues(n - 1)
         IN  inner \cup UNION {NestIn(x) : x \in inner}

\* the text of a block with the value it denotes
NestCases ==
    {<<Join(BlockLines(x, 0), <<"\n">>), x>> : x \in NestedTextValues(MaxDepth)}

\* the lines of the scalar elements of a list, each with the element the
\* grammar gives it: null, true and false are converted, other tokens are
\* kept as strings
ElementTexts ==
    {<<<<"1">>, Str(<<"1">>)>>, <<<<"s", "t", "r">>, Str(<<"s", "t", "r">>)>>,
     <<<<"a", " ", "b">>, Str(<<"a", " ", "b">>)>>,
     <<S_true, Bool(TRUE)>>, <<S_false, Bool(FALSE)>>, <<S_null, Null>>}

\* the text k[n]: followed by n element lines, alone and before the line p: 1
ScalarListCases ==
    UNION {UNION {LET head == <<GenericHeader(K_k, n)>>
                                \o [i \in 1..n |-> Spaces(DefaultIndent) \o es[i][1]]
                      arr == Arr([i \in 1..n |-> es[i][2]])
                  IN  {<<Join(head, <<"\n">>), Obj(<<K_k>>, <<arr>>)>>,
                       <<Join(head \o <<K_p \o <<":", " ", "1">>>>, <<"\n">>),
                         Obj(<<K_k, K_p>>, <<arr, Num(1)>>)>>} :
                  es \in [1..n -> ElementTexts]} :
           n \in 1..MaxElems}

K_id == <<"i", "d">>
K_emp == <<"e", "m", "p">>

\* the rows {id, name} of a table nested in a block
EmpTable ==
    Arr(<<Obj(<<K_id, K_name>>, <<Num(1), Str(<<"A", "l">>)>>),
          Obj(<<K_id, K_name>>, <<Num(2), Str(S_Bob)>>)>>)

\* the objects written as the blocks of a list
BlockSample ==
    {Obj(<<K_name>>, <<Str(S_Bob)>>),
     Obj(<<K_name, ColNames[1]>>, <<Str(<<"E", "n", "g">>), Bool(TRUE)>>),
     Obj(<<K_name, K_emp>>, <<Str(<<"E", "n", "g">>), EmpTable>>)}

\* the lines of a block whose keys are indented by e: key: value for a
\* scalar, a tabular header and its rows (indented by e + DefaultIndent) for
\* a table
RECURSIVE ElementBlockLines(_, _, _)
ElementBlockLines(obj, i, e) ==
    IF i > Len(obj.ks) THEN <<>>
    ELSE LET x == obj.vs[i]
             cols == IF IsArray(x) THEN Keys(x.v[1]) ELSE <<>>
         IN  (IF IsArray(x)
              THEN <<Spaces(e) \o TabularHeaderStart(obj.ks[i], Len(x.v))
                       \o Join(cols, <<",">>) \o <<"}", ":">>>>
                     \o [r \in 1..Len(x.v) |->
                            Spaces(e + DefaultIndent)
                              \o Join([j \in 1..Len(cols) |->
                                          ScalarText(Get(x.v[r], cols[j]))], <<",">>)]
              ELSE <<Spaces(e) \o obj.ks[i] \o <<":", " ">> \o ScalarText(x)>>)
             \o ElementBlockLines(obj, i + 1, e)

RECURSIVE BlocksLines(_, _)
BlocksLines(blocks, e) ==
    IF Len(blocks) = 0 THEN <<>>
    ELSE ElementBlockLines(blocks[1], 1, e) \o BlocksLines(Tail(blocks), e)

\* the text k[n]: followed by n blocks, their keys one or two steps deeper
\* than the header, alone and before the line p: 1
BlockListCases ==
    UNION {UNION {LET head == <<GenericHeader(K_k, n)>> \o BlocksLines(bs, e)
                  IN  {<<Join(head, <<"\n">>), Obj(<<K_k>>, <<Arr(bs)>>)>>,
                       <<Join(head \o <<K_p \o <<":", " ", "1">>>>, <<"\n">>),
                         Obj(<<K_k, K_p>>, <<Arr(bs), Num(1)>>)>>} :
                  bs \in [1..n -> BlockSample]} :
           n \in 1..MaxRows, e \in {DefaultIndent, 2 * DefaultIndent}}

\* the outcome of a call that fails with MalformedInput instead of returning
Malformed == [t |-> "error", v |-> 0]

\* header lines that break the fixed patterns: a count that is not a number,
\* a column list or a count that is not closed
BadHeaders ==
    {<<"a", "[", "x", "]", ":">>,
     <<"a", "[", "x", "]", "{", "b", "}", ":">>,
     <<"a", "[", "2", "]", "{", "b", ",", "c", ":">>,
     <<"a", "[", "2", ":">>,
     <<"a", "[", "]", ":">>,
     <<"a", "[", "1", "]", "b", "}", ":">>}

\* such a line alone, before body lines, after a field and between two fields
MalformedCases ==
    UNION {{<<h, Malformed>>,
            <<Join(<<h, <<" ", " ", "1", ",", "2">>, <<" ", " ", "3", ",", "4">>>>, <<"\n">>),
              Malformed>>,
            <<Join(<<K_k \o <<":", " ", "1">>, h>>, <<"\n">>), Malformed>>,
            <<Join(<<K_k \o <<":", " ", "1">>, h, K_p \o <<":", " ", "2">>>>, <<"\n">>),
              Malformed>>} :
           h \in BadHeaders}

\* rows of fewer cells than the m declared columns
ShortRows(m) ==
    {Join(cells, <<",">>) :
        cells \in UNION {[1..c -> {<<"1">>, <<"x">>}] : c \in 1..(m - 1)}}

\* the text k[n]{a,b,..}: followed by n rows that are short of cells; the
\* grammar gives the missing cells no value
ShortRowCases ==
    UNION {UNION {{<<Join(<<TabularHeaderStart(K_k, n)
                              \o Join(SubSeq(ColNames, 1, m), <<",">>) \o <<"}", ":">>>>
                            \o [i \in 1..n |-> Spaces(DefaultIndent) \o rows[i]],
                          <<"\n">>),
                     NoValue>> :
                     rows \in [1..n -> ShortRows(m)]} :
                  n \in 1..MaxRows} :
           m \in 2..(MaxCols + 1)}

\* the line key: followed by a space and nothing else, alone, before and
\* after another field
EmptyFieldCases ==
    {<<K_k \o <<":", " ">>, Obj(<<K_k>>, <<Str(<<>>)>>)>>,
     <<Join(<<K_k \o <<":", " ">>, K_p \o <<":", " ", "1">>>>, <<"\n">>),
       Obj(<<K_k, K_p>>, <<Str(<<>>), Num(1)>>)>>,
     <<Join(<<K_p \o <<":", " ", "1">>, K_k \o <<":", " ">>>>, <<"\n">>),
       Obj(<<K_p, K_k>>, <<Num(1), Str(<<>>)>>)>>}

\* the text k[n]{a,b,c}: followed by n rows with an empty cell between two
\* commas
EmptyCellCases ==
    UNION {{<<Join(<<TabularHeaderStart(K_k, n)
                       \o Join(SubSeq(ColNames, 1, 3), <<",">>) \o <<"}", ":">>>>
                     \o [i \in 1..n |->
                            Spaces(DefaultIndent)
                              \o ScalarText(cs[i][1]) \o <<",", ",">> \o ScalarText(cs[i][2])],
                   <<"\n">>),
              Obj(<<K_k>>,
                  <<Arr([i \in 1..n |->
                            Obj(SubSeq(ColNames, 1, 3),
                                <<cs[i][1], Str(<<>>), cs[i][2]>>)])>>)>> :
              cs \in [1..n -> {Num(1), Str(<<"x">>), Null} \X {Num(2), Str(<<"y">>)}]} :
           n \in 1..MaxRows}

\* texts handed to toonToJson, each with the outcome the grammar gives it
TextCases ==
    NestCases \cup ScalarListCases \cup BlockListCases \cup MalformedCases
        \cup ShortRowCases \cup EmptyFieldCases \cup EmptyCellCases

\* In SpecText json holds the value the text denotes.
InitText ==
    /\ \E c \in TextCases : toon = c[1] /\ json = c[2]
    /\ options = DefaultOptions
    /\ decoded = NoValue
    /\ stats = NoStats
    /\ calls = NoCalls
    /\ pc = "text"

SpecText == InitText /\ [][ToonToJson]_vars

\* keys with a character outside letters, digits and underscore
BadKeySample ==
    {<<"a", " ", "b">>, <<"a", "-", "b">>, <<"a", ":", "b">>, <<"a", ",", "b">>}

\* the places of a key: a scalar field, a field after another, the key of an
\* object, of a list, of an empty array, a column of a table, a field of a
\* nested object, a field of a list element, a column of the top-level table
KeyShapes(key) ==
    {Obj(<<key>>, <<Num(1)>>),
     Obj(<<K_k, key>>, <<Num(1), Str(<<"x">>)>>),
     Obj(<<key>>, <<Obj(<<ColNames[1]>>, <<Num(1)>>)>>),
     Obj(<<key>>, <<Arr(<<Num(1), Num(2)>>)>>),
     Obj(<<key>>, <<Arr(<<>>)>>),
     Obj(<<K_k>>, <<Arr(<<Obj(<<key>>, <<Num(1)>>)>>)>>),
     Obj(<<K_k>>, <<Arr(<<Obj(<<ColNames[1], key>>, <<Num(1), Num(2)>>),
                          Obj(<<key, ColNames[1]>>, <<Null, Num(3)>>)>>)>>),
     Obj(<<K_p>>, <<Obj(<<key>>, <<Null>>)>>),
     Obj(<<K_k>>, <<Arr(<<Obj(<<key>>, <<Num(1)>>), Num(2)>>)>>),
     Arr(<<Obj(<<key>>, <<Num(1)>>)>>)}

InitKeys ==
    /\ json \in UNION {KeyShapes(key) : key \in BadKeySample}
    /\ options \in {[indent |-> w, sortKeys |-> b] :
                       w \in {DefaultIndent, 4}, b \in BOOLEAN}
    /\ toon = NoText
    /\ decoded = NoValue
    /\ stats = NoStats
    /\ calls = NoCalls
    /\ pc = "value"

SpecKeys == InitKeys /\ [][JsonToToon]_vars

MaxTextLen == 4
MaxStructural == 21

TokenAlphabet == {"a", " ", "\n", "\t", "{", "]", ":", ","}

\* n commas
RECURSIVE Commas(_)
Commas(n) == IF n = 0 THEN <<>> ELSE <<",">> \o Commas(n - 1)

\* all short texts over the alphabet, and runs of structural characters long
\* enough for their count to pass multiples of ten
TokenTexts ==
    StringsUpTo(TokenAlphabet, MaxTextLen)
        \cup {Commas(n) : n \in 0..MaxStructural}
        \cup {<<"\t", " ", "a", "\n", "\n", ",">>}

InitTokens ==
    /\ toon \in TokenTexts
    /\ json = NoValue
    /\ options \in OptionSample
    /\ decoded = NoValue
    /\ stats = NoStats
    /\ calls = NoCalls
    /\ pc = "estimate"

SpecTokens == InitTokens /\ [][EstimateTokenCount]_vars

\* JSON texts (the empty text among them) and TOON texts
StatsJsonTexts == StringsUpTo({"a", " ", ",", "{"}, MaxStrLen)

StatsToonTexts == StringsUpTo({"a", ":"}, MaxStrLen)

InitStats ==
    /\ json \in {Str(s) : s \in StatsJsonTexts}
    /\ toon \in StatsToonTexts
    /\ options = DefaultOptions
    /\ decoded = NoValue
    /\ stats = NoStats
    /\ calls = NoCalls
    /\ pc = "texts"

SpecStats == InitStats /\ [][CalculateStats]_vars

\* string values that are empty or end in spaces, and others
TrailingValues ==
    {Str(<<>>), Str(<<" ">>), Str(<<"a", " ">>), Str(<<"a", " ", " ">>),
     Str(<<"a">>), Num(1), Null}

\* objects of two fields, at the top and under a key
TrailingInputs ==
    LET pairs == {Obj(<<K_k, K_p>>, <<v1, v2>>) : v1, v2 \in TrailingValues}
    IN  pairs \cup {Obj(<<K_parent, ColNames[1]>>, <<x, Num(1)>>) : x \in pairs}

InitTrailing ==
    /\ json \in TrailingInputs
    /\ options \in OptionSample
    /\ toon = NoText
    /\ decoded = NoValue
    /\ stats = NoStats
    /\ calls = NoCalls
    /\ pc = "value"

SpecTrailing == InitTrailing /\ [][JsonToToon]_vars

\* arrays handed to jsonToToon as the top-level value
TopArrays == {Arr(l) : l \in Lists} \cup {Arr(<<>>)}

InitRoot ==
    /\ json \in TopArrays
    /\ options \in {[indent |-> w, sortKeys |-> FALSE] : w \in WidthSample}
    /\ toon = NoText
    /\ decoded = NoValue
    /\ stats = NoStats
    /\ calls = NoCalls
    /\ pc = "value"

SpecRoot == InitRoot /\ [][JsonToToon]_vars

\* the lines that follow an array header: elements, rows, a blank line, a
\* line that looks like a field, and a field of the enclosing object
CountLineSample ==
    {Spaces(DefaultIndent) \o <<"x">>,
     Spaces(DefaultIndent) \o <<"1">>,
     <<>>,
     Spaces(DefaultIndent) \o ColNames[1] \o <<":", " ", "1">>,
     K_p \o <<":", " ", "1">>}

\* a header k[n]: or k[n]{a}: declaring n elements, followed by up to
\* MaxElems + 1 lines
CountTexts ==
    UNION {UNION {{Join(<<h>> \o body, <<"\n">>) :
                      h \in {GenericHeader(K_k, n),
                             TabularHeaderStart(K_k, n) \o ColNames[1] \o <<"}", ":">>},
                      body \in [1..m -> CountLineSample]} :
                  m \in 0..(MaxElems + 1)} :
           n \in 0..MaxElems}

InitCount ==
    /\ toon \in CountTexts
    /\ json = NoValue
    /\ options = DefaultOptions
    /\ decoded = NoValue
    /\ stats = NoStats
    /\ calls = NoCalls
    /\ pc = "text"

SpecCount == InitCount /\ [][ToonToJson]_vars

-----------------------------------------------------------------------------
(* Calls in steps: each call of toonToJson or jsonToToon holds its own line *)
(* list, cursor, parseObject frames and accumulator, and the steps of the   *)
(* calls in progress are taken in any order.                                *)

\* the last completed iteration of a loop of parseObject that did not end its
\* block: the cursor before and after it
NoIteration == [loop |-> "none", from |-> 0, to |-> 1]

Iteration(loop, from, to) == [loop |-> loop, from |-> from, to |-> to]

\* an activation of parseObject(indent): obj, the loop it is in (the while
\* loop, the row loop, the element loop, or waiting for the nested object of
\* a key), the locals of the array branches, and the cursor where the current
\* iteration of the for loop (from) and of the while loop (wfrom) began
Frame(indent) ==
    [indent |-> indent, obj |-> EmptyObj, loop |-> "while", key |-> <<>>,
     count |-> 0, i |-> 0, arr |-> <<>>, columns |-> <<>>, currentIndent |-> 0,
     from |-> 0, wfrom |-> 0]

\* a call that has not begun: its function, argument and options; seen is the
\* set of other calls found in progress at one of its steps
NewCall(fn, arg, opts) ==
    [fn |-> fn, arg |-> arg, opts |-> opts, at |-> "called", lines |-> <<>>,
     idx |-> 0, stack |-> <<>>, keys |-> <<>>, result |-> <<>>,
     returned |-> NoValue, iter |-> NoIteration, seen |-> {}]

\* a line list shared by the calls, as a module-level variable would be
LinesOf_Shared(cs, c) == cs[1].lines

\* const lines of the call c
LinesOf(cs, c) == cs[c].lines

Top(a) == a.stack[Len(a.stack)]

SetTop(a, f) == [a.stack EXCEPT ![Len(a.stack)] = f]

InProgress(c) == {d \in (1..Len(calls)) \ {c} : calls[d].at = "running"}

\* the call c becomes a; nothing of another call changes
Becomes(c, a) ==
    /\ calls' = [calls EXCEPT ![c] = [a EXCEPT !.seen = calls[c].seen \cup InProgress(c)]]
    /\ UNCHANGED <<json, options, toon, decoded, stats, pc>>

\* while (idx < lines.length) is over, or the non-blank line at the cursor
\* is indented less than the block
BlockEnds(a, L) ==
    IF a.idx >= Len(L) THEN TRUE
    ELSE LET line == L[a.idx + 1]
         IN  Len(trim(line)) > 0 /\ LeadingSpaces(line) < Top(a).indent

\* toonToJson(toon) splits its text and calls parseObject(0)
SplitStep(c) ==
    /\ calls[c].fn = "toonToJson" /\ calls[c].at = "called"
    /\ Becomes(c, [calls[c] EXCEPT !.lines = SplitLines(calls[c].arg), !.idx = 0,
                                   !.stack = <<Frame(0)>>, !.at = "running"])

\* one iteration of the while loop of parseObject that does not end the block;
\* line and the four match results are the constants of the iteration
WhileStep(c) ==
    LET a == calls[c]
        L == LinesOf(calls, c)
    IN  /\ a.fn = "toonToJson" /\ a.at = "running"
        /\ Top(a).loop = "while"
        /\ ~ BlockEnds(a, L)
        /\ \E line \in {L[a.idx + 1]} :
           \E currentIndent \in {LeadingSpaces(line)}, blank \in {Len(trim(line)) = 0},
              tm \in {tabularMatch(line)}, am \in {arrayMatch(line)},
              nm \in {nestedMatch(line)}, kv \in {kvMatch(line)} :
             LET f == Top(a)
                 next == [a EXCEPT !.idx = a.idx + 1]
                 done == [next EXCEPT !.iter = Iteration("while", a.idx, a.idx + 1)]
             IN  IF blank THEN Becomes(c, done)
                 ELSE IF tm.ok
                 THEN Becomes(c, [next EXCEPT !.stack =
                         SetTop(a, [f EXCEPT !.loop = "rows", !.key = tm.key,
                                             !.count = tm.count,
                                             !.columns = ColumnNames(tm.columns),
                                             !.i = 0, !.arr = <<>>, !.wfrom = a.idx])])
                 ELSE IF am.ok
                 THEN Becomes(c, [next EXCEPT !.stack =
                         SetTop(a, [f EXCEPT !.loop = "elems", !.key = am.key,
                                             !.count = am.count,
                                             !.currentIndent = currentIndent,
                                             !.i = 0, !.arr = <<>>, !.wfrom = a.idx])])
                 ELSE IF nm.ok
                 THEN Becomes(c, [next EXCEPT !.stack =
                         Append(SetTop(a, [f EXCEPT !.loop = "nested", !.key = nm.key,
                                                    !.wfrom = a.idx]),
                                Frame(currentIndent + 2))])
                 ELSE IF kv.ok
                 THEN \E parsedValue \in {parseToken(kv.rawValue)} :
                         Becomes(c, [done EXCEPT !.stack =
                             SetTop(a, [f EXCEPT !.obj = Put(f.obj, kv.key, parsedValue)])])
                 ELSE Becomes(c, done)

\* one iteration of the row loop, or its end: obj[key] = arr; continue
RowStep(c) ==
    LET a == calls[c]
        L == LinesOf(calls, c)
        f == Top(a)
    IN  /\ a.fn = "toonToJson" /\ a.at = "running"
        /\ f.loop = "rows"
        /\ IF f.i < f.count /\ a.idx < Len(L)
           THEN \E row \in {trim(L[a.idx + 1])} :
                \E values \in {RowValues(row)} :
                \E item \in {RowItem(f.columns, values, 1, EmptyObj)} :
                LET arr == IF Len(row) = 0 THEN f.arr ELSE Append(f.arr, item)
                IN  Becomes(c, [a EXCEPT !.idx = a.idx + 1,
                                         !.iter = Iteration("rows", a.idx, a.idx + 1),
                                         !.stack = SetTop(a, [f EXCEPT !.arr = arr,
                                                                       !.i = f.i + 1])])
           ELSE Becomes(c, [a EXCEPT !.iter = Iteration("while", f.wfrom, a.idx),
                                     !.stack = SetTop(a, [f EXCEPT
                                         !.obj = Put(f.obj, f.key, Arr(f.arr)),
                                         !.loop = "while"])])

\* one iteration of the element loop, up to the call of parseObject when the
\* line looks like a field (idx--), or the end of the loop
ElementStep(c) ==
    LET a == calls[c]
        L == LinesOf(calls, c)
        f == Top(a)
    IN  /\ a.fn = "toonToJson" /\ a.at = "running"
        /\ f.loop = "elems"
        /\ IF f.i < f.count /\ a.idx < Len(L)
           THEN \E arrLine \in {trim(L[a.idx + 1])} :
                LET next == [a EXCEPT !.idx = a.idx + 1,
                                      !.iter = Iteration("elems", a.idx, a.idx + 1)]
                IN  IF Len(arrLine) = 0
                    THEN Becomes(c, [next EXCEPT !.stack =
                            SetTop(a, [f EXCEPT !.i = f.i + 1])])
                    ELSE IF bareKeyMatch(arrLine)
                    THEN Becomes(c, [a EXCEPT !.idx = a.idx - 1, !.stack =
                            Append(SetTop(a, [f EXCEPT !.from = a.idx]),
                                   Frame(f.currentIndent + 2))])
                    ELSE Becomes(c, [next EXCEPT !.stack =
                            SetTop(a, [f EXCEPT !.i = f.i + 1, !.arr =
                                Append(f.arr, IF arrLine = S_null THEN Null
                                              ELSE Str(arrLine))])])
           ELSE Becomes(c, [a EXCEPT !.iter = Iteration("while", f.wfrom, a.idx),
                                     !.stack = SetTop(a, [f EXCEPT
                                         !.obj = Put(f.obj, f.key, Arr(f.arr)),
                                         !.loop = "while"])])

\* return obj: to toonToJson's caller, to the nested branch (obj[key] = ...)
\* or to the element loop (arr.push(...), then i++, idx++)
ReturnStep(c) ==
    LET a == calls[c]
        L == LinesOf(calls, c)
    IN  /\ a.fn = "toonToJson" /\ a.at = "running"
        /\ Top(a).loop = "while"
        /\ BlockEnds(a, L)
        /\ LET f == Top(a)
               n == Len(a.stack)
               rest == SubSeq(a.stack, 1, n - 1)
           IN  IF n = 1
               THEN Becomes(c, [a EXCEPT !.stack = <<>>, !.at = "returned",
                                         !.returned = f.obj])
               ELSE LET p == a.stack[n - 1]
                    IN  IF p.loop = "nested"
                        THEN Becomes(c, [a EXCEPT
                                !.iter = Iteration("while", p.wfrom, a.idx),
                                !.stack = [rest EXCEPT ![n - 1] =
                                    [p EXCEPT !.obj = Put(p.obj, p.key, f.obj),
                                              !.loop = "while"]]])
                        ELSE Becomes(c, [a EXCEPT
                                !.idx = a.idx + 1,
                                !.iter = Iteration("elems", p.from, a.idx + 1),
                                !.stack = [rest EXCEPT ![n - 1] =
                                    [p EXCEPT !.arr = Append(p.arr, f.obj),
                                              !.i = p.i + 1]]])

\* jsonToToon(json, options) merges its options and, for an object, takes
\* the keys convertObject goes through
OptionsStep(c) ==
    LET a == calls[c]
    IN  /\ a.fn = "jsonToToon" /\ a.at = "called"
        /\ Becomes(c, [a EXCEPT !.at = "running", !.result = <<>>, !.keys =
               IF IsPlainObject(a.arg)
               THEN IF a.opts.sortKeys THEN SortStrings(Keys(a.arg)) ELSE Keys(a.arg)
               ELSE <<>>])

\* one iteration of the loop of convertObject: result += the lines of a key
FieldStep(c) ==
    LET a == calls[c]
    IN  /\ a.fn = "jsonToToon" /\ a.at = "running"
        /\ a.keys # <<>>
        /\ Becomes(c, [a EXCEPT !.keys = Tail(a.keys), !.result =
               a.result \o ObjectBody(a.arg, <<a.keys[1]>>, 0, a.opts)])

\* jsonToToon returns: result.trimEnd() for an object, the text of an array
\* or of a scalar
TextStep(c) ==
    LET a == calls[c]
    IN  /\ a.fn = "jsonToToon" /\ a.at = "running"
        /\ a.keys = <<>>
        /\ Becomes(c, [a EXCEPT !.at = "returned", !.returned =
               IF IsArray(a.arg) THEN convertArray(S_root, a.arg.v, 0, a.opts)
               ELSE IF IsPlainObject(a.arg) THEN trimEnd(a.result)
               ELSE escapeValue(a.arg)])

Step(c) ==
    \/ SplitStep(c)
    \/ WhileStep(c)
    \/ RowStep(c)
    \/ ElementStep(c)
    \/ ReturnStep(c)
    \/ OptionsStep(c)
    \/ FieldStep(c)
    \/ TextStep(c)

MaxCalls == 2

NextCalls == \E c \in 1..MaxCalls : c <= Len(calls) /\ Step(c)

\* texts and values of the calls: a table with a blank row, a list with a
\* line that looks like a field after an element and right after the header,
\* a nested object, and objects, an array and a scalar to encode
CallSample ==
    << NewCall("toonToJson",
               Join(<<TabularHeaderStart(K_k, 2) \o ColNames[1] \o <<"}", ":">>,
                      Spaces(DefaultIndent) \o <<"1">>, <<>>,
                      Spaces(DefaultIndent) \o <<"2">>>>, <<"\n">>),
               DefaultOptions),
       NewCall("jsonToToon", Obj(<<K_k, K_p>>, <<Str(<<>>), Num(1)>>), DefaultOptions),
       NewCall("toonToJson",
               Join(<<GenericHeader(K_k, 2), Spaces(DefaultIndent) \o <<"x">>,
                      Spaces(DefaultIndent) \o ColNames[1] \o <<":", " ", "1">>>>,
                    <<"\n">>),
               DefaultOptions),
       NewCall("jsonToToon", Arr(<<Num(1), Str(<<"a">>)>>), DefaultOptions),
       NewCall("toonToJson",
               Join(<<K_p \o <<":">>, Spaces(DefaultIndent) \o K_child \o <<":", " ", "1">>,
                      K_k \o <<":", " ", "x">>>>, <<"\n">>),
               DefaultOptions),
       NewCall("jsonToToon",
               Obj(<<K_p, K_k>>,
                   <<Obj(<<K_child>>, <<Num(1)>>),
                     Arr(<<Obj(<<ColNames[1]>>, <<Num(1)>>)>>)>>),
               [indent |-> 4, sortKeys |-> TRUE]),
       NewCall("toonToJson",
               Join(<<GenericHeader(K_k, 3),
                      Spaces(DefaultIndent) \o ColNames[1] \o <<":", " ", "1">>>>,
                    <<"\n">>),
               DefaultOptions),
       NewCall("jsonToToon", Num(1), DefaultOptions) >>

\* one call alone, or up to MaxCalls calls on different inputs: runs of
\* neighbours of the sample, in both orders
Reverse(s) == [i \in 1..Len(s) |-> s[Len(s) + 1 - i]]

CallRuns ==
    UNION {UNION {{SubSeq(CallSample, s, s + n - 1),
                   Reverse(SubSeq(CallSample, s, s + n - 1))} :
                  s \in 1..(Len(CallSample) + 1 - n)} :
           n \in 1..MaxCalls}

InitCalls ==
    /\ calls \in CallRuns
    /\ json = NoValue
    /\ options = DefaultOptions
    /\ toon = NoText
    /\ decoded = NoValue
    /\ stats = NoStats
    /\ pc = "calls"

SpecCalls == InitCalls /\ [][NextCalls]_vars

\* each call in progress takes its next step: a call runs until it returns
SpecCallsFair ==
    SpecCalls /\ \A c \in 1..MaxCalls : WF_vars(c <= Len(calls) /\ Step(c))

-----------------------------------------------------------------------------
(* Comparing values                                                        *)

\* a and b hold equal values under every key of either (the order of the keys
\* is not compared); arrays are compared element by element
RECURSIVE SameValue(_, _)
SameValue(a, b) ==
    IF a.t # b.t THEN FALSE
    ELSE IF a.t = "obj"
    THEN /\ {a.ks[i] : i \in 1..Len(a.ks)} = {b.ks[i] : i \in 1..Len(b.ks)}
         /\ \A i \in 1..Len(a.ks) : SameValue(a.vs[i], Get(b, a.ks[i]))
    ELSE IF a.t = "arr"
    THEN /\ Len(a.v) = Len(b.v)
         /\ \A i \in 1..Len(a.v) : SameValue(a.v[i], b.v[i])
    ELSE a = b

-----------------------------------------------------------------------------
(* Claims                                                                  *)

\* the lines of a text
Lines(text) == SplitOn(text, "\n")

\* C1: for an object whose key k maps to a non-empty array of N objects with
\* the same key set and only scalar values, jsonToToon with default options
\* emits the header line k[N]{c1,...,cm}: (the first element's keys in order)
\* followed by exactly N row lines, each indentWidth spaces and the
\* comma-joined stringified cells in column order.
C1_TabularLines ==
    (pc = "encoded" /\ IsPlainObject(json) /\ options = DefaultOptions)
    => LET arr == TableOfInput(json)
           cols == Keys(arr[1])
       IN  Lines(toon)
             = <<K_k \o <<"[">> \o NumToStr(Len(arr)) \o <<"]", "{">>
                     \o Join(cols, <<",">>) \o <<"}", ":">>>>
               \o [i \in 1..Len(arr) |->
                      Spaces(options.indent)
                        \o Join([j \in 1..Len(cols) |->
                                    escapeValue(Get(arr[i], cols[j]))], <<",">>)]

\* C3: round trip for tabular data: decoding the encoding of a non-empty array
\* of same-keyed objects with scalar values gives back the array, every row
\* holding the same value (of the same type) under each named key.
C3_TabularRoundTrip ==
    pc = "decoded"
    => SameValue(Get(decoded, TableKeyOfInput(json)), Arr(TableOfInput(json)))

\* C4: scalar codec round trip: decoding the text the encoder writes for a
\* scalar v, as the value of a key: value line or as a tabular cell, returns a
\* value equal to v and of the same type.
C4_ScalarRoundTrip ==
    pc = "decoded" => CodecDecoded(json, decoded) = CodecScalar(json)

\* C6: decoding reverses the escaping exactly: a string with commas and/or
\* double quotes, written by the encoder in its quoted form in a tabular cell
\* or a key-value line, decodes to exactly that string.
C6_UnescapeExact ==
    LET x == CodecScalar(json)
    IN  (pc = "decoded" /\ x.t = "str"
            /\ (Includes(x.v, ",") \/ Includes(x.v, "\""))
            /\ ~ Includes(x.v, "\n"))
        => CodecDecoded(json, decoded) = Str(x.v)

\* C2: on a tabular header name[count]{c1,...,cm}: followed by count row
\* lines, toonToJson produces under name an array with one object per row
\* keyed by the declared columns, cell j under column j, each cell parsed as a
\* scalar (null, true/false, decimal number text, otherwise a string).
C2_TabularDecode ==
    pc = "decoded" => SameValue(decoded, json)

\* the number of double quotes among the first n characters of s
QuotesIn(s, n) == Cardinality({j \in 1..n : s[j] = "\""})

\* text is s wrapped in one pair of double quotes, every double quote of s
\* written twice and every other character once, in order
IsQuotedForm(text, s) ==
    /\ Len(text) = Len(s) + QuotesIn(s, Len(s)) + 2
    /\ text[1] = "\""
    /\ text[Len(text)] = "\""
    /\ \A i \in 1..Len(s) :
          LET p == 1 + i + QuotesIn(s, i - 1)
          IN  /\ text[p] = s[i]
              /\ s[i] = "\"" => text[p + 1] = "\""

\* text is the decimal text of the integer n: a minus sign for a negative
\* number, then its digits without a leading zero
IsDecimalText(text, n) ==
    LET digits == IF n < 0 THEN Tail(text) ELSE text
        abs == IF n < 0 THEN 0 - n ELSE n
    IN  /\ Len(text) > 0
        /\ n < 0 => text[1] = "-"
        /\ Len(digits) > 0
        /\ \A i \in 1..Len(digits) : IsDigit(digits[i])
        /\ (Len(digits) > 1 => digits[1] # "0")
        /\ parseInt(digits) = abs

HasSpecialChar(s) == \E i \in 1..Len(s) : s[i] \in {",", "\"", "\n"}

\* C5: escapeValue renders a string as its raw text if and only if it has no
\* comma, no double quote and no newline; otherwise wrapped in one pair of
\* double quotes with every internal double quote doubled and nothing else
\* changed.  null renders as null, booleans as true / false, numbers as their
\* decimal text.
C5_EscapeValue ==
    pc = "escaped"
    => CASE json.t = "null" -> toon = S_null
         [] json.t = "bool" -> toon = (IF json.v THEN S_true ELSE S_false)
         [] json.t = "num" -> IsDecimalText(toon, json.v)
         [] json.t = "str" ->
              /\ (toon = json.v) <=> ~ HasSpecialChar(json.v)
              /\ HasSpecialChar(json.v) => IsQuotedForm(toon, json.v)

\* a string with a quote, a comma and another character has been escaped
C5_Witness ==
    /\ pc = "escaped"
    /\ json.t = "str"
    /\ Includes(json.v, "\"") /\ Includes(json.v, ",") /\ Includes(json.v, "a")
    /\ Len(toon) = Len(json.v) + 3

\* the array a document holds under the key k, or is, and its header key
DocIsArrayDoc(x) ==
    IsArray(x) \/ (IsPlainObject(x) /\ Keys(x) = <<K_k>> /\ IsArray(Get(x, K_k)))

DocArray(x) == IF IsArray(x) THEN x.v ELSE Get(x, K_k).v

DocKey(x) == IF IsArray(x) THEN S_root ELSE K_k

\* the indent convertArray is called with for that array
DocIndent(x, opts) == IF IsArray(x) THEN 0 ELSE IndentStep(opts)

AllObjects(arr) == \A i \in 1..Len(arr) : IsPlainObject(arr[i])

SameKeySets(arr) ==
    AllObjects(arr) /\ \A i \in 1..Len(arr) : KeySet(arr[i]) = KeySet(arr[1])

SomeComplexValue(arr) ==
    \E i \in 1..Len(arr) : \E j \in 1..Len(arr[i].vs) :
        arr[i].vs[j].t \in {"obj", "arr"}

\* C7: uniformity boundary: a non-empty array of objects with identical key
\* sets in which some element has an object or array as a value is never
\* rendered as tabular; its header line is key[N]: with no column list and
\* its elements are rendered by the generic array rule.
C7_ComplexNotTabular ==
    (pc = "encoded" /\ DocIsArrayDoc(json) /\ Len(DocArray(json)) > 0
        /\ SameKeySets(DocArray(json)) /\ SomeComplexValue(DocArray(json)))
    => /\ Lines(toon)[1] = GenericHeader(DocKey(json), Len(DocArray(json)))
       /\ toon = trimEnd(ListHeader(DocKey(json), DocArray(json))
                           \o ListBody(DocArray(json), 0,
                                       DocIndent(json, options), options))

\* a two-element array whose second element alone holds a nested object has
\* been encoded
C7_Witness ==
    /\ pc = "encoded"
    /\ DocIsArrayDoc(json)
    /\ Len(DocArray(json)) = 2
    /\ SameKeySets(DocArray(json))
    /\ ~ SomeComplexValue(<<DocArray(json)[1]>>)
    /\ \E j \in 1..Len(DocArray(json)[2].vs) : DocArray(json)[2].vs[j].t = "obj"
    /\ Lines(toon)[1] = GenericHeader(DocKey(json), 2)

\* C8: an array is rendered with a tabular header key[N]{...}: only if every
\* element is an object whose key set is identical to that of every other
\* element; an extra or missing key in any element (for any key names, also
\* names that contain commas) gives the generic header key[N]:.
C8_TabularOnlyIfSameKeys ==
    (pc = "encoded" /\ DocIsArrayDoc(json) /\ Len(DocArray(json)) > 0
        /\ ~ SameKeySets(DocArray(json)))
    => Lines(toon)[1] = GenericHeader(DocKey(json), Len(DocArray(json)))

\* the sum of f over a sequence of numbers
RECURSIVE SumSeq(_)
SumSeq(ns) == IF Len(ns) = 0 THEN 0 ELSE ns[1] + SumSeq(Tail(ns))

\* the keys (or positional pseudo-keys [i]) under which x holds empty arrays,
\* x itself standing under key
RECURSIVE EmptyArrayKeys(_, _)
EmptyArrayKeys(x, key) ==
    IF IsArray(x)
    THEN IF Len(x.v) = 0 THEN {key}
         ELSE UNION {EmptyArrayKeys(x.v[i], <<"[">> \o NumToStr(i - 1) \o <<"]">>) :
                        i \in 1..Len(x.v)}
    ELSE IF IsPlainObject(x)
    THEN UNION {EmptyArrayKeys(x.vs[i], x.ks[i]) : i \in 1..Len(x.ks)}
    ELSE {}

RECURSIVE NumEmptyArrays(_)
NumEmptyArrays(x) ==
    IF IsArray(x)
    THEN IF Len(x.v) = 0 THEN 1
         ELSE SumSeq([i \in 1..Len(x.v) |-> NumEmptyArrays(x.v[i])])
    ELSE IF IsPlainObject(x)
    THEN SumSeq([i \in 1..Len(x.vs) |-> NumEmptyArrays(x.vs[i])])
    ELSE 0

RECURSIVE HasEmptyObject(_)
HasEmptyObject(x) ==
    IF IsArray(x) THEN \E i \in 1..Len(x.v) : HasEmptyObject(x.v[i])
    ELSE IF IsPlainObject(x)
    THEN Len(x.ks) = 0 \/ \E i \in 1..Len(x.vs) : HasEmptyObject(x.vs[i])
    ELSE FALSE

\* the number of lines a value takes when an empty array takes one line, a
\* scalar one line, an object field `key:` one line more than its object, a
\* table one header line and one line a row, and any other array one header
\* line more than its elements
RECURSIVE LineCount(_, _)
LineCount(x, asField) ==
    IF IsArray(x)
    THEN IF Len(x.v) > 0 /\ SameKeySets(x.v) /\ ~ SomeComplexValue(x.v)
         THEN 1 + Len(x.v)
         ELSE 1 + SumSeq([i \in 1..Len(x.v) |-> LineCount(x.v[i], FALSE)])
    ELSE IF IsPlainObject(x)
    THEN (IF asField THEN 1 ELSE 0)
           + SumSeq([i \in 1..Len(x.vs) |-> LineCount(x.vs[i], TRUE)])
    ELSE 1

EmptyArrayLine(key) == key \o <<"[", "0", "]", "{", "}", ":">>

EndsWith(s, p) == Len(s) >= Len(p) /\ Drop(s, Len(s) - Len(p)) = p

\* C9: an empty array under key k is always encoded as the single line
\* k[0]{}: with no body lines, at every nesting depth (field of the top-level
\* or of a nested object, element of another array, top-level array).
C9_EmptyArrayLine ==
    pc = "encoded"
    => LET lines == Lines(toon)
       IN  /\ \A key \in EmptyArrayKeys(json, S_root) :
                 \E i \in 1..Len(lines) : trimStart(lines[i]) = EmptyArrayLine(key)
           /\ Cardinality({i \in 1..Len(lines) : EndsWith(lines[i], EmptyArrayLine(<<>>))})
                = NumEmptyArrays(json)
           /\ (NumEmptyArrays(json) > 0 /\ ~ HasEmptyObject(json))
                 => Len(lines) = LineCount(json, FALSE)

\* an empty array that is the first element of an array nested in two objects
\* has been encoded, and lines follow its line
C9_Witness ==
    /\ pc = "encoded"
    /\ json = Obj(<<K_k>>, <<Obj(<<K_p, K_k>>,
                                 <<Str(<<"a">>), Arr(<<Arr(<<>>), Num(1)>>)>>)>>)
    /\ \E i \in 1..(Len(Lines(toon)) - 1) :
          trimStart(Lines(toon)[i]) = EmptyArrayLine(<<"[", "0", "]">>)

\* the permutations of 1..n
PermsOf(n) == {p \in [1..n -> 1..n] : \A i, j \in 1..n : i # j => p[i] # p[j]}

\* the values that hold the key/value pairs of x in some insertion order, at
\* every nesting level
RECURSIVE Reorderings(_)
Reorderings(x) ==
    IF IsPlainObject(x)
    THEN LET n == Len(x.ks)
             inner == [i \in 1..n |-> Reorderings(x.vs[i])]
             choices == {f \in [1..n -> UNION {inner[i] : i \in 1..n}] :
                            \A i \in 1..n : f[i] \in inner[i]}
         IN  {Obj([i \in 1..n |-> x.ks[p[i]]], [i \in 1..n |-> f[p[i]]]) :
                 p \in PermsOf(n), f \in choices}
    ELSE IF IsArray(x)
    THEN LET n == Len(x.v)
             inner == [i \in 1..n |-> Reorderings(x.v[i])]
         IN  {Arr(f) : f \in {g \in [1..n -> UNION {inner[i] : i \in 1..n}] :
                                 \A i \in 1..n : g[i] \in inner[i]}}
    ELSE {x}

\* the key a line starts with (after its indentation), <<>> when the line is
\* a row, a scalar element or blank
KeyOfLine(line) ==
    LET s == trimStart(line)
        n == WordPrefixLen(s)
    IN  IF n > 0 /\ Len(s) > n /\ s[n + 1] \in {":", "["} THEN Take(s, n) ELSE <<>>

\* lines i < j of one block: equally indented with no shallower line between
SiblingLines(lines, i, j) ==
    /\ i < j
    /\ LeadingSpaces(lines[i]) = LeadingSpaces(lines[j])
    /\ \A m \in i..j : LeadingSpaces(lines[m]) >= LeadingSpaces(lines[i])

\* the columns a tabular header line names, <<>> for any other line
HeaderColumns(line) ==
    IF EndsWith(line, <<"}", ":">>) /\ Includes(line, "{")
    THEN SplitOn(SubSeq(line, PrefixWithout(line, "{") + 2, Len(line) - 2), ",")
    ELSE <<>>

StrictlyAscending(keys) ==
    \A i \in 1..(Len(keys) - 1) : StrLess(keys[i], keys[i + 1])

IsTable(arr) == Len(arr) > 0 /\ SameKeySets(arr) /\ ~ SomeComplexValue(arr)

\* x holds a list whose lines do not tell its objects apart: a list of two
\* objects or more, or the top-level list with an object
RECURSIVE HasObjectList(_, _)
HasObjectList(x, top) ==
    IF IsArray(x)
    THEN \/ /\ ~ IsTable(x.v)
            /\ Cardinality({i \in 1..Len(x.v) : IsPlainObject(x.v[i])})
                 >= (IF top THEN 1 ELSE 2)
         \/ \E i \in 1..Len(x.v) : HasObjectList(x.v[i], FALSE)
    ELSE IF IsPlainObject(x)
    THEN \E i \in 1..Len(x.vs) : HasObjectList(x.vs[i], FALSE)
    ELSE FALSE

\* C10: with sortKeys = true, a value holding the same key/value pairs in
\* another insertion order encodes to the same text; the columns of every
\* tabular header are in strictly ascending order of code units, and so are
\* the key lines of every object: the top-level object's lines are exactly
\* its keys, and sibling key lines ascend at every nesting level.
C10_SortKeysDeterministic ==
    (pc = "encoded" /\ options.sortKeys)
    => LET lines == Lines(toon)
       IN  /\ \A other \in Reorderings(json) : jsonToToon(other, options) = toon
           /\ \A i \in 1..Len(lines) : StrictlyAscending(HeaderColumns(lines[i]))
           /\ ~ HasObjectList(json, TRUE)
                => \A i, j \in 1..Len(lines) :
                      (SiblingLines(lines, i, j) /\ KeyOfLine(lines[i]) # <<>>
                          /\ KeyOfLine(lines[j]) # <<>>)
                      => StrLess(KeyOfLine(lines[i]), KeyOfLine(lines[j]))
           /\ IsPlainObject(json)
                => LET top == {i \in 1..Len(lines) :
                                  LeadingSpaces(lines[i]) = 0 /\ KeyOfLine(lines[i]) # <<>>}
                   IN  /\ {KeyOfLine(lines[i]) : i \in top} = KeySet(json)
                       /\ Cardinality(top) = Len(json.ks)

\* a table whose rows hold their keys in two insertion orders, neither of
\* them ascending in the first row, has been encoded with sortKeys = true
C10_Witness ==
    /\ pc = "encoded"
    /\ options.sortKeys
    /\ json = Obj(<<K_k>>, <<Arr(<<FlatOf(<<<<"b">>, <<"B">>>>),
                                   FlatOf(<<<<"B">>, <<"b">>>>)>>)>>)
    /\ Lines(toon)[1] = <<"k", "[", "2", "]", "{", "B", ",", "b", "}", ":">>

IsScalar(x) == x.t \in {"null", "bool", "num", "str"}

\* C11: a non-empty array of scalars under key k encodes to the header k[N]:
\* followed by exactly N lines, the i-th being the indent prefix of depth d+1
\* and the stringified i-th element, in element order.
C11_ScalarList ==
    LET arr == ListOfInput(json)
        d == ListDepth(json)
        w == options.indent
    IN  (pc = "encoded" /\ \A i \in 1..Len(arr) : IsScalar(arr[i]))
        => Lines(toon)
             = (IF d = 1 THEN <<K_p \o <<":">>>> ELSE <<>>)
                 \o <<Spaces(w * d) \o GenericHeader(K_k, Len(arr))>>
                 \o [i \in 1..Len(arr) |-> Spaces(w * (d + 1)) \o escapeValue(arr[i])]

\* C12: in a non-tabular array whose header is at depth d, every key: value
\* line of an object element carries a prefix of exactly indentWidth * (d + 1)
\* spaces, the depth at which the scalar elements are written.
C12_ObjectElementIndent ==
    LET arr == ListOfInput(json)
        d == ListDepth(json)
        w == options.indent
        lines == Lines(toon)
    IN  (pc = "encoded" /\ ~ IsTable(arr) /\ \E i \in 1..Len(arr) : IsPlainObject(arr[i]))
        => \A n \in (d + 2)..Len(lines) :
              KeyOfLine(lines[n]) # <<>> => LeadingSpaces(lines[n]) = w * (d + 1)

IsKeyLine(line) == KeyOfLine(line) # <<>>

\* the keys of an object and of the objects nested in it, in the order of
\* their lines, each with its object nesting depth
RECURSIVE KeyLinesOf(_, _)
KeyLinesOf(obj, d) ==
    LET RECURSIVE from(_)
        from(i) ==
            IF i > Len(obj.ks) THEN <<>>
            ELSE <<[key |-> obj.ks[i], depth |-> d, nested |-> IsPlainObject(obj.vs[i])]>>
                   \o (IF IsPlainObject(obj.vs[i]) THEN KeyLinesOf(obj.vs[i], d + 1)
                       ELSE <<>>)
                   \o from(i + 1)
    IN  from(1)

\* C13: for every positive indentWidth w, a key at object nesting depth d
\* whose value is an object is written as the line key: with a prefix of w*d
\* spaces, followed by the nested object's lines, each with a prefix of
\* exactly w*(d+1) spaces.
C13_NestedObjectIndent ==
    pc = "encoded"
    => LET w == options.indent
           want == KeyLinesOf(json, 0)
           got == SelectSeq(Lines(toon), IsKeyLine)
       IN  /\ Len(got) = Len(want)
           /\ \A i \in 1..Len(want) :
                 /\ LeadingSpaces(got[i]) = w * want[i].depth
                 /\ KeyOfLine(got[i]) = want[i].key
                 /\ want[i].nested
                      => got[i] = Spaces(w * want[i].depth) \o want[i].key \o <<":">>

\* {parent: {child: 'value'}} has been encoded with indent 4 and the text
\* holds the line `    child: value`
C13_Witness ==
    /\ pc = "encoded"
    /\ options.indent = 4
    /\ json = Obj(<<K_parent>>, <<Obj(<<K_child>>, <<Str(S_value)>>)>>)
    /\ Lines(toon) = <<K_parent \o <<":">>,
                       Spaces(4) \o K_child \o <<":", " ">> \o S_value>>

\* x is an object with an object under some key and no array anywhere
RECURSIVE OnlyObjects(_)
OnlyObjects(x) ==
    IF IsPlainObject(x) THEN \A i \in 1..Len(x.vs) : OnlyObjects(x.vs[i])
    ELSE IsScalar(x)

HasObjectField(x) ==
    IsPlainObject(x) /\ \E i \in 1..Len(x.vs) : IsPlainObject(x.vs[i])

\* C14: on a nested-object header line name: followed by more deeply indented
\* key: value lines, toonToJson returns under name an object that holds every
\* one of those keys with its parsed value, recursively for deeper blocks.
C14_NestedDecode ==
    (pc = "decoded" /\ HasObjectField(json) /\ OnlyObjects(json))
    => SameValue(decoded, json)

\* the value is an object whose key k holds an array of scalars
IsScalarListDoc(x) ==
    /\ IsPlainObject(x)
    /\ K_k \in KeySet(x)
    /\ IsArray(Get(x, K_k))
    /\ \A i \in 1..Len(Get(x, K_k).v) : IsScalar(Get(x, K_k).v[i])

\* C15: on a generic array header name[count]: followed by count scalar
\* lines, toonToJson returns an array of count elements in line order in
\* which the line null is Null, the lines true / false are the booleans and
\* other tokens are kept as strings.
C15_ScalarListDecode ==
    (pc = "decoded" /\ IsScalarListDoc(json)) => SameValue(decoded, json)

\* the value is an object whose key k holds an array of objects
IsBlockListDoc(x) ==
    /\ IsPlainObject(x)
    /\ K_k \in KeySet(x)
    /\ IsArray(Get(x, K_k))
    /\ \A i \in 1..Len(Get(x, K_k).v) : IsPlainObject(Get(x, K_k).v[i])

\* C16: on a generic array header name[count]: whose following lines form
\* nested-object blocks, toonToJson returns an array of count objects, the
\* i-th holding exactly the keys and values of the i-th block (tabular arrays
\* nested in the block included), and none of the block's keys are keys of
\* the enclosing object.
C16_BlockListDecode ==
    (pc = "decoded" /\ IsBlockListDoc(json))
    => /\ SameValue(decoded, json)
       /\ KeySet(decoded) = KeySet(json)

\* C17: toonToJson fails with an error (it does not return a value) whenever a
\* structural header line violates the grammar's fixed patterns (a
\* non-numeric count, unbalanced brackets or braces); such a line is never
\* silently skipped.
C17_MalformedRejected ==
    (pc = "decoded" /\ json = Malformed) => decoded = Malformed

\* undefined is neither x nor a value held anywhere in x
RECURSIVE NoUndefined(_)
NoUndefined(x) ==
    IF IsArray(x) THEN \A i \in 1..Len(x.v) : NoUndefined(x.v[i])
    ELSE IF IsPlainObject(x) THEN \A i \in 1..Len(x.vs) : NoUndefined(x.vs[i])
    ELSE x # Undefined

\* C18: no value returned by toonToJson holds undefined anywhere: every key
\* of every decoded object (objects built from rows with fewer cells than
\* declared columns or with empty cells included) maps to null, a boolean, a
\* number, a string, an object or an array.
C18_NoUndefined ==
    pc = "decoded" => NoUndefined(decoded)

RECURSIVE HasEmptyString(_)
HasEmptyString(x) ==
    IF IsArray(x) THEN \E i \in 1..Len(x.v) : HasEmptyString(x.v[i])
    ELSE IF IsPlainObject(x) THEN \E i \in 1..Len(x.vs) : HasEmptyString(x.vs[i])
    ELSE x = Str(<<>>)

\* C19: a scalar token that is empty after trimming decodes to the empty
\* string: the line key: followed by a space and nothing else decodes to
\* {key: ''}, and an empty cell between two commas of a tabular row decodes to
\* '' for its own column, the later cells staying in their columns.
C19_EmptyToken ==
    (pc = "decoded" /\ HasEmptyString(json)) => SameValue(decoded, json)

\* the keys of x and of the values in x that hold a character outside
\* letters, digits and underscore
RECURSIVE BadKeysOf(_)
BadKeysOf(x) ==
    IF IsArray(x) THEN UNION {BadKeysOf(x.v[i]) : i \in 1..Len(x.v)}
    ELSE IF IsPlainObject(x)
    THEN {x.ks[i] : i \in {j \in 1..Len(x.ks) :
                              \E n \in 1..Len(x.ks[j]) : ~ IsWordChar(x.ks[j][n])}}
           \cup UNION {BadKeysOf(x.vs[i]) : i \in 1..Len(x.vs)}
    ELSE {}

IsInfix(p, s) == \E i \in 1..(Len(s) - Len(p) + 1) : SubSeq(s, i, i + Len(p) - 1) = p

\* the line holds the key as it is: before the colon of a key: value line or
\* of a key: header, before the count of an array header, or as a column of
\* a tabular header
WritesKey(line, key) ==
    \/ StartsWith(trimStart(line), key \o <<":">>)
    \/ StartsWith(trimStart(line), key \o <<"[">>)
    \/ /\ EndsWith(line, <<"}", ":">>)
       /\ Includes(line, "{")
       /\ IsInfix(<<",">> \o key \o <<",">>,
                  <<",">> \o SubSeq(line, PrefixWithout(line, "{") + 2, Len(line) - 2)
                    \o <<",">>)

\* C20: an object key with a character outside letters, digits and
\* underscore is rejected or escaped by jsonToToon: the encoder never writes
\* such a key as it is into a key: value line, a key: header or a tabular
\* column list.
C20_KeysEscaped ==
    pc = "encoded"
    => \A key \in BadKeysOf(json) :
          \A i \in 1..Len(Lines(toon)) : ~ WritesKey(Lines(toon)[i], key)

\* the length of text once every maximal run of white space counts as one
\* character: the other characters and the places where a run starts
CollapsedLength(text) ==
    Cardinality({i \in 1..Len(text) :
                    ~ IsSpace(text[i]) \/ i = 1 \/ ~ IsSpace(text[i - 1])})

\* n is the least integer with n >= a / b
IsCeilOf(n, a, b) == n * b >= a /\ (n - 1) * b < a

\* C21: estimateTokenCount(text) is ceil(L/4) + ceil(3*S/10), L the length of
\* text with every maximal run of white space replaced by one space and S
\* the number of characters of text among { } [ ] : , ; it is a non-negative
\* integer and depends on text only.
C21_EstimateTokenCount ==
    pc = "estimated"
    => LET L == CollapsedLength(toon)
           S == Cardinality({i \in 1..Len(toon) :
                                toon[i] \in {"{", "}", "[", "]", ":", ","}})
       IN  /\ stats.count \in Nat
           /\ \E n1, n2 \in 0..(Len(toon) + 1) :
                 /\ IsCeilOf(n1, L, 4)
                 /\ IsCeilOf(n2, 3 * S, 10)
                 /\ stats.count = n1 + n2

\* a text with two runs of white space and a structural character has been
\* counted: 4 characters after collapsing give 1, one comma gives 1
C21_Witness ==
    /\ pc = "estimated"
    /\ toon = <<"\t", " ", "a", "\n", "\n", ",">>
    /\ stats.count = 2

C23_NoTrailingWhitespace ==
    pc = "encoded"
    => LET ls == Lines(toon)
       IN  /\ Len(toon) > 0 => ls[Len(ls)] # <<>>
           /\ \A i \in 1..Len(ls) :
                 Len(ls[i]) > 0 => ~IsSpace(ls[i][Len(ls[i])])

\* C24: a top-level array is encoded with a header line whose key is root,
\* and its rows or elements are written at depth 1: each line after the
\* header starts with indentWidth spaces, and the line of a row or of a scalar
\* element has exactly that many.
C24_RootArray ==
    (pc = "encoded" /\ IsArray(json))
    => LET ls == Lines(toon)
           rowsOrScalars ==
               \/ \A i \in 1..Len(json.v) : IsScalar(json.v[i])
               \/ IsTable(json.v)
       IN  /\ StartsWith(ls[1], S_root \o <<"[">>)
           /\ \A i \in 2..Len(ls) :
                 /\ StartsWith(ls[i], Spaces(options.indent))
                 /\ (rowsOrScalars /\ Len(ls[i]) > options.indent)
                       => ls[i][options.indent + 1] # " "

\* the lines after the header that belong to the array: those up to the
\* first non-blank line that is not indented
RECURSIVE BodyLength(_)
BodyLength(ls) ==
    IF Len(ls) = 0 \/ (Len(ls[1]) > 0 /\ LeadingSpaces(ls[1]) = 0) THEN 0
    ELSE 1 + BodyLength(Tail(ls))

\* C27: for every array header (tabular or generic) declaring count N, the
\* decoded array has exactly N elements when at least N non-blank body lines
\* follow the header (blank lines between them being skipped, not counted),
\* and never has more elements than the number of lines that follow the
\* header.
C27_DeclaredCount ==
    (pc = "decoded" /\ HeaderPrefix(Lines(toon)[1]).ok)
    => LET ls == Lines(toon)
           N == HeaderPrefix(ls[1]).count
           body == SubSeq(ls, 2, 1 + BodyLength(Tail(ls)))
           nonBlank == Cardinality({i \in 1..Len(body) : Len(trim(body[i])) > 0})
           arr == Get(decoded, HeaderPrefix(ls[1]).key)
       IN  /\ IsArray(arr)
           /\ nonBlank >= N => Len(arr.v) = N
           /\ Len(arr.v) <= Len(ls) - 1

\* the result of the call a when it runs alone
Alone(a) ==
    IF a.fn = "toonToJson" THEN toonToJson(a.arg) ELSE jsonToToon(a.arg, a.opts)

\* a step changes one call only
OneCallSteps ==
    \E c \in 1..Len(calls) :
        \A d \in (1..Len(calls)) \ {c} : calls'[d] = calls[d]

\* C25: when the steps of two or more jsonToToon / toonToJson calls on
\* different inputs are interleaved in any order, each call returns the same
\* result as when it runs alone, and no step of a call changes the cursor,
\* line list, frames or accumulator of another call.
C25_Reentrant ==
    /\ [](\A c \in 1..Len(calls) :
            calls[c].at = "returned" => calls[c].returned = Alone(calls[c]))
    /\ [][OneCallSteps]_vars

\* two calls that found each other in progress have both returned
C25_Witness ==
    /\ Len(calls) = 2
    /\ calls[1].fn = "toonToJson" /\ calls[2].fn = "jsonToToon"
    /\ calls[1].arg # calls[2].arg
    /\ \A c \in 1..2 : calls[c].at = "returned" /\ calls[c].seen # {}
    /\ calls[1].returned = Obj(<<K_k>>, <<Arr(<<Str(<<"x">>), EmptyObj>>)>>)
    /\ calls[2].returned = <<"k", ":", " ", "\n", "p", ":", " ", "1">>

\* every completed loop iteration of every call advanced the cursor
LoopsAdvance ==
    \A c \in 1..Len(calls) : calls[c].iter.to > calls[c].iter.from

EveryCallReturned == \A c \in 1..Len(calls) : calls[c].at = "returned"

\* C26: toonToJson terminates on every finite input text: every iteration
\* of the loops of parseObject either advances the line cursor or ends the
\* current block, also after the cursor step-back (idx--) taken when a
\* generic array element looks like a nested object, and every call returns.
C26_Terminates == [] LoopsAdvance /\ <> EveryCallReturned

=============================================================================
